---- MODULE Spec2Model ----
(***************************************************************************)
(* Verification model of the emergent-boids analyzer:                      *)
(*   - the multi-rate bundle loader (src/analyzer/src/ml/multirate_loader) *)
(*   - the stability metrics (src/analyzer/src/ml/stability_metrics)       *)
(*   - the rolling CV feature (src/analyzer/src/ml/feature_engineering)    *)
(*   - the extinction-event report (src/analyzer/generate_full_report)     *)
(* Real-valued quantities (CV, thresholds, scores) are kept as exact       *)
(* fractions of integers; NaN and +infinity are explicit values.           *)
(***************************************************************************)
EXTENDS Integers, Sequences, FiniteSets, TLC

VARIABLES source, reads, df, species, files, snapshots, result

vars == <<source, reads, df, species, files, snapshots, result>>

(* ------------------------------ bounds --------------------------------- *)

\* largest sampling rate a bundle entry or a request names
MaxRate == 3
\* longest list of rates passed to load_multirate_export
MaxRequest == 2
\* most rows of a table
MaxLen == 4
\* largest rolling window
MaxWindow == 2

\* Python's None, and a present value
None == [some |-> FALSE]

Some(v) == [some |-> TRUE, value |-> v]

Range(s) == {s[i] : i \in 1..Len(s)}

(* ===================== multirate_loader: file names ==================== *)

Digits == <<"0", "1", "2", "3", "4", "5", "6", "7", "8", "9">>

DigitSet == Range(Digits)

DigitValue(d) == (CHOOSE i \in 1..10 : Digits[i] = d) - 1

\* str(rate) inside the f-string: the decimal digits, no leading zero
RECURSIVE FormatInt(_)
FormatInt(n) ==
    IF n < 10 THEN <<Digits[n + 1]>>
    ELSE FormatInt(n \div 10) \o <<Digits[(n % 10) + 1]>>

\* int(rate_str): a non-empty run of digits (leading zeros accepted);
\* anything else raises ValueError, written -1
RECURSIVE DigitsValue(_)
DigitsValue(toks) ==
    IF toks = <<>> THEN 0
    ELSE 10 * DigitsValue(SubSeq(toks, 1, Len(toks) - 1))
         + DigitValue(toks[Len(toks)])

ParseInt(toks) ==
    IF toks # <<>> /\ \A i \in 1..Len(toks) : toks[i] \in DigitSet
    THEN DigitsValue(toks)
    ELSE -1

\* f'snapshots_{rate}x.jsonl'
SnapshotName(rate) == <<"snapshots_">> \o FormatInt(rate) \o <<"x.jsonl">>

\* f'{rate}x'
RateLabel(rate) == FormatInt(rate) \o <<"x">>

\* str.replace(old, ''): every occurrence of the piece is removed
RemovePiece(name, piece) == SelectSeq(name, LAMBDA t : t # piece)

\* entry names a bundle may hold, each a sequence of name pieces
EntryNames ==
    {SnapshotName(r) : r \in 1..MaxRate}
    \cup { <<"metadata.json">>,
           <<"snapshots_", "0", "2", "x.jsonl">>,
           <<"snapshots_", "a", "x.jsonl">>,
           <<"snapshots_", "3", ".jsonl">>,
           <<"snapshots_", "snapshots_", "1", "x.jsonl">> }

\* a bundle path: missing, or a folder / ZIP archive holding entries
Sources ==
    {[exists |-> FALSE, kind |-> "folder", entries |-> {}]}
    \cup [exists : {TRUE}, kind : {"folder", "zip"}, entries : SUBSET EntryNames]

_list_files_in_source(src) == src.entries

\* the rate a file name contributes to list_available_rates; -1 when the
\* name does not match or int() raises ValueError (the entry is skipped)
RateOfEntry(name) ==
    IF name # <<>> /\ Head(name) = "snapshots_"
       /\ name[Len(name)] \in {"x.jsonl", ".jsonl"}
    THEN LET rate_str == RemovePiece(RemovePiece(name, "snapshots_"), "x.jsonl")
         IN  ParseInt(rate_str)
    ELSE -1

\* sorted(rates): ascending, one element per matching entry
RECURSIVE SortedFrom(_, _, _)
SortedFrom(names, v, top) ==
    IF v > top THEN <<>>
    ELSE LET n == Cardinality({e \in names : RateOfEntry(e) = v})
         IN  [i \in 1..n |-> v] \o SortedFrom(names, v + 1, top)

list_available_rates(src) ==
    IF ~src.exists THEN <<>>
    ELSE LET names == {e \in _list_files_in_source(src) : RateOfEntry(e) # -1}
             top == IF names = {} THEN 0
                    ELSE CHOOSE m \in {RateOfEntry(e) : e \in names} :
                             \A e \in names : RateOfEntry(e) <= m
         IN  SortedFrom(names, 0, top)

\* _load_text_from_source: the entry's text, or FileNotFoundError
_load_text_from_source(src, filename) ==
    IF filename \in src.entries
    THEN [kind |-> "text", entry |-> filename]
    ELSE [kind |-> "FileNotFoundError", entry |-> filename]

\* load_rate: the outcome and the entries it read
load_rate_unchecked(src, rate) ==
    LET content == _load_text_from_source(src, SnapshotName(rate))
    IN  IF ~src.exists
        THEN [out |-> [kind |-> "FileNotFoundError", entry |-> <<>>], reads |-> <<>>]
        ELSE IF content.kind = "FileNotFoundError"
        THEN [out |-> content, reads |-> <<>>]
        ELSE [out |-> [kind |-> "DataFrame", entry |-> content.entry],
              reads |-> <<content.entry>>]

load_rate(src, rate) ==
    IF ~src.exists
    THEN [out |-> [kind |-> "FileNotFoundError", entry |-> <<>>], reads |-> <<>>]
    ELSE LET filename == SnapshotName(rate)
             available == list_available_rates(src)
         IN  IF rate \notin Range(available)
             THEN [out |-> [kind |-> "ValueError", rates |-> <<rate>>,
                            available |-> available],
                   reads |-> <<>>]
             ELSE LET content == _load_text_from_source(src, filename)
                  IN  IF content.kind = "FileNotFoundError"
                      THEN [out |-> content, reads |-> <<>>]
                      ELSE [out |-> [kind |-> "DataFrame", entry |-> content.entry],
                            reads |-> <<content.entry>>]

\* the loop `for rate in rates_to_load`: stops at the first exception
RECURSIVE LoadEach(_, _, _, _)
LoadEach(src, rates, tables, rd) ==
    IF rates = <<>> THEN [out |-> [kind |-> "dict", tables |-> tables], reads |-> rd]
    ELSE LET r == load_rate(src, Head(rates))
         IN  IF r.out.kind # "DataFrame"
             THEN [out |-> r.out, reads |-> rd \o r.reads]
             ELSE LoadEach(src, Tail(rates),
                           [l \in DOMAIN tables \cup {RateLabel(Head(rates))} |->
                               IF l = RateLabel(Head(rates)) THEN r.out ELSE tables[l]],
                           rd \o r.reads)

\* a loader that checks each rate only when it gets to it
load_multirate_export_lazy(src, rates) ==
    IF ~src.exists
    THEN [out |-> [kind |-> "FileNotFoundError", entry |-> <<>>], reads |-> <<>>]
    ELSE LoadEach(src, IF rates = None THEN list_available_rates(src) ELSE rates.value,
                  <<>>, <<>>)

load_multirate_export(src, rates) ==
    IF ~src.exists
    THEN [out |-> [kind |-> "FileNotFoundError", entry |-> <<>>], reads |-> <<>>]
    ELSE LET available_rates == list_available_rates(src)
             invalid_rates == IF rates = None THEN <<>>
                              ELSE SelectSeq(rates.value,
                                             LAMBDA r : r \notin Range(available_rates))
         IN  IF invalid_rates # <<>>
             THEN [out |-> [kind |-> "ValueError", rates |-> invalid_rates,
                            available |-> available_rates],
                   reads |-> <<>>]
             ELSE LoadEach(src, IF rates = None THEN available_rates ELSE rates.value,
                           <<>>, <<>>)

(* ============================ tables =================================== *)

\* A table (DataFrame): the tick column and one population column per
\* species that has one.  Rows are in tick order.
Rows(d) == 1..Len(d.tick)

Columns(d) == DOMAIN d.population

\* populations a cell may hold
Pops == {0, 100, 115}

PopsB == {0, 100}

\* a run sampled every tenth tick
TickOf(i) == 10 * i

TablesOfLen(n) ==
    {[tick |-> [i \in 1..n |-> TickOf(i)], population |-> [c \in {"a"} |-> x]] :
        x \in [1..n -> Pops]}
    \cup
    {[tick |-> [i \in 1..n |-> TickOf(i)],
      population |-> [c \in {"a", "b"} |-> IF c = "a" THEN x ELSE y]] :
        x \in [1..n -> Pops], y \in [1..n -> PopsB]}

\* pd.DataFrame([]): no rows and no columns
EmptyTable == [tick |-> <<>>, population |-> <<>>]

\* the tables of n rows, n = 0 standing for the table without columns
Tables(n) == IF n = 0 THEN {EmptyTable} ELSE TablesOfLen(n)

\* a real number n/d, d > 0
Frac(n, d) == [n |-> n, d |-> d]

Thresholds == {Frac(0, 1), Frac(1, 10), Frac(3, 2)}

(* ====================== stability_metrics: CV ========================== *)

RECURSIVE Sum(_)
Sum(xs) == IF xs = <<>> THEN 0 ELSE Head(xs) + Sum(Tail(xs))

RECURSIVE SumSq(_)
SumSq(xs) == IF xs = <<>> THEN 0 ELSE Head(xs) * Head(xs) + SumSq(Tail(xs))

NaN == [kind |-> "nan"]

Inf == [kind |-> "inf"]

\* a finite CV >= 0 is kept by its square sq_n/sq_d
\* (std/mean)^2 = n(n*Q - S^2) / ((n-1) S^2), std with ddof = 1
Num(sq_n, sq_d) == [kind |-> "num", sq_n |-> sq_n, sq_d |-> sq_d]

\* Series.std(): NaN for fewer than two values
StdIsNaN(xs) == Len(xs) < 2

calculate_coefficient_of_variation(xs) ==
    LET n == Len(xs)
        S == Sum(xs)
        Q == SumSq(xs)
    IN  IF n = 0 THEN NaN            \* mean of nothing is NaN, NaN == 0 is False
        ELSE IF S = 0 THEN Inf       \* mean == 0
        ELSE IF StdIsNaN(xs) THEN NaN
        ELSE Num(n * (n * Q - S * S), (n - 1) * S * S)

isnan(cv) == cv.kind = "nan"

isinf(cv) == cv.kind = "inf"

\* cv > t, cv < t and cv <= t for a threshold t >= 0; False for NaN,
\* and +inf is above every threshold
GreaterThan(cv, t) ==
    \/ cv.kind = "inf"
    \/ cv.kind = "num" /\ cv.sq_n * t.d * t.d > t.n * t.n * cv.sq_d

LessThan(cv, t) ==
    cv.kind = "num" /\ cv.sq_n * t.d * t.d < t.n * t.n * cv.sq_d

AtMost(cv, t) ==
    cv.kind = "num" /\ cv.sq_n * t.d * t.d <= t.n * t.n * cv.sq_d

(* ================== stability_metrics: equilibrium ===================== *)

\* df.iloc[lo:hi][pop_col] for 0-based lo, hi: rows lo+1 .. hi
Slice(col, lo, hi) ==
    LET a == IF lo < 0 THEN 0 ELSE lo
        b == IF hi > Len(col) THEN Len(col) ELSE hi
    IN  SubSeq(col, a + 1, b)

\* the inner loop over species of detect_equilibrium at 0-based row i
AllStableInclusive(d, sps, window, thr, i) ==
    \A k \in 1..Len(sps) :
        \/ sps[k] \notin Columns(d)
        \/ LET cv == calculate_coefficient_of_variation(
                         Slice(d.population[sps[k]], i - window + 1, i + 1))
           IN  ~(isnan(cv) \/ isinf(cv) \/ GreaterThan(cv, thr))

AllStableInverted(d, sps, window, thr, i) ==
    \A k \in 1..Len(sps) :
        \/ sps[k] \notin Columns(d)
        \/ LET cv == calculate_coefficient_of_variation(
                         Slice(d.population[sps[k]], i - window, i))
           IN  ~(isnan(cv) \/ isinf(cv) \/ LessThan(cv, thr))

AllStable(d, sps, window, thr, i) ==
    \A k \in 1..Len(sps) :
        \/ sps[k] \notin Columns(d)                      \* continue
        \/ LET cv == calculate_coefficient_of_variation(
                         Slice(d.population[sps[k]], i - window, i))
           IN  ~(isnan(cv) \/ isinf(cv) \/ GreaterThan(cv, thr))

\* for i in range(window, len(df)), from 0-based row i on
RECURSIVE EquilibriumFrom(_, _, _, _, _)
EquilibriumFrom(d, sps, window, thr, i) ==
    IF i >= Len(d.tick) THEN None
    ELSE IF AllStable(d, sps, window, thr, i) THEN Some(d.tick[i + 1])
    ELSE EquilibriumFrom(d, sps, window, thr, i + 1)

detect_equilibrium(d, sps, window, thr) == EquilibriumFrom(d, sps, window, thr, window)

(* ================= evolution_analyzer: equilibrium ===================== *)

\* the inner loop over species of evolution_analyzer.detect_equilibrium at
\* 0-based row tick_idx, from the k-th species on: a species without a
\* column is a KeyError, a window of mean 0 is not tested at all, a NaN
\* CV (one row) is not above the threshold, and the first unstable
\* species ends the loop
RECURSIVE EvolutionWindow(_, _, _, _, _, _)
EvolutionWindow(d, sps, window, thr, tick_idx, k) ==
    IF k > Len(sps) THEN "stable"
    ELSE IF sps[k] \notin Columns(d) THEN "KeyError"
    ELSE LET xs == Slice(d.population[sps[k]], tick_idx - window, tick_idx)
         IN  IF Sum(xs) > 0                                   \* if mean_pop > 0
                /\ GreaterThan(calculate_coefficient_of_variation(xs), thr)
             THEN "unstable"
             ELSE EvolutionWindow(d, sps, window, thr, tick_idx, k + 1)

\* for tick_idx in range(window, len(df)), from 0-based row tick_idx on
RECURSIVE EvolutionEquilibriumFrom(_, _, _, _, _)
EvolutionEquilibriumFrom(d, sps, window, thr, tick_idx) ==
    IF tick_idx >= Len(d.tick) THEN [kind |-> "return", tick |-> None]
    ELSE LET all_stable == EvolutionWindow(d, sps, window, thr, tick_idx, 1)
         IN  IF all_stable = "KeyError" THEN [kind |-> "KeyError"]
             ELSE IF all_stable = "stable"
             THEN [kind |-> "return", tick |-> Some(d.tick[tick_idx + 1])]
             ELSE EvolutionEquilibriumFrom(d, sps, window, thr, tick_idx + 1)

evolution_detect_equilibrium(d, sps, window, thr) ==
    EvolutionEquilibriumFrom(d, sps, window, thr, window)

(* ============== stability_metrics: collapse, biodiversity ============== *)

\* extinct_count at row idx: listed species with a column whose population is 0
ExtinctCount(d, sps, idx) ==
    Cardinality({k \in 1..Len(sps) :
                    sps[k] \in Columns(d) /\ d.population[sps[k]][idx] = 0})

\* a test that also fires when the rate equals the threshold
CollapsedAtOrEqual(d, sps, thr, idx) ==
    ExtinctCount(d, sps, idx) * thr.d >= thr.n * Len(sps)

\* extinction_rate > threshold, extinction_rate = extinct_count / len(species)
CollapsedAt(d, sps, thr, idx) ==
    ExtinctCount(d, sps, idx) * thr.d > thr.n * Len(sps)

RECURSIVE CollapseFrom(_, _, _, _)
CollapseFrom(d, sps, thr, idx) ==
    IF idx > Len(d.tick) THEN [kind |-> "return", collapsed |-> FALSE, tick |-> None]
    ELSE IF Len(sps) = 0 THEN [kind |-> "ZeroDivisionError"]
    ELSE IF CollapsedAt(d, sps, thr, idx)
    THEN [kind |-> "return", collapsed |-> TRUE, tick |-> Some(d.tick[idx])]
    ELSE CollapseFrom(d, sps, thr, idx + 1)

detect_ecosystem_collapse(d, sps, thr) == CollapseFrom(d, sps, thr, 1)

\* populations of the listed species that have a column, at row idx
PopulationsAt(d, sps, idx) ==
    LET present == SelectSeq(sps, LAMBDA sp : sp \in Columns(d))
    IN  [k \in 1..Len(present) |-> d.population[present[k]][idx]]

\* The Shannon index of a row is kept as its summands: one proportion
\* pop/total per summand  -p*log(p).  No summand at all is the number 0.
ShannonTermsUnguarded(pops) ==
    [k \in 1..Len(pops) |-> [pop |-> pops[k], total |-> Sum(pops)]]

ShannonTerms(pops) ==
    LET positive == SelectSeq(pops, LAMBDA x : x > 0)          \* if pop > 0
    IN  [k \in 1..Len(positive) |-> [pop |-> positive[k], total |-> Sum(pops)]]

calculate_biodiversity_index(d, sps) ==
    [idx \in Rows(d) |->
        LET populations == PopulationsAt(d, sps, idx)
        IN  IF Sum(populations) = 0 THEN <<>>                  \* result.append(0)
            ELSE ShannonTerms(populations)]

\* -p*log(p) is a number when 0 < p (log(0) = -inf and 0*inf = NaN, x/0 = NaN)
ShannonDefined(h) == \A k \in 1..Len(h) : h[k].total > 0 /\ h[k].pop > 0

\* -p*log(p) = 0 when p = 1 and > 0 when 0 < p < 1
ShannonIsZero(h) == \A k \in 1..Len(h) : h[k].pop = h[k].total

(* ============ rolling CV: stability_metrics, feature_engineering ======= *)

\* series.rolling(window, min_periods=1) at 1-based row i: the trailing
\* min(window, i) values
Trailing(xs, window, i) == SubSeq(xs, IF i - window + 1 < 1 THEN 1 ELSE i - window + 1, i)

\* the rolling_cv series inside calculate_population_stability:
\* rolling(window, min_periods=1).apply(calculate_coefficient_of_variation)
RollingApplyCV(xs, window) ==
    [i \in 1..Len(xs) |-> calculate_coefficient_of_variation(Trailing(xs, window, i))]

\* Series.mean() of CV values skips NaN; +inf makes it +inf.  The finite
\* mean of square roots is not computed: only its kind is kept.
MeanKind(cvs) ==
    IF \A i \in 1..Len(cvs) : isnan(cvs[i]) THEN "nan"
    ELSE IF \E i \in 1..Len(cvs) : isinf(cvs[i]) THEN "inf"
    ELSE "num"

calculate_population_stability(d, sp, window) ==
    IF sp \notin Columns(d) THEN [rolling_cv |-> <<>>, mean |-> "nan"]
    ELSE LET rolling_cv == RollingApplyCV(d.population[sp], window)
         IN  [rolling_cv |-> rolling_cv, mean |-> MeanKind(rolling_cv)]

\* feature_engineering.calculate_rolling_cv:
\* rolling_std / rolling_mean.replace(0, nan)
calculate_rolling_cv(xs, window) ==
    [i \in 1..Len(xs) |->
        LET w == Trailing(xs, window, i)
            n == Len(w)
            S == Sum(w)
            Q == SumSq(w)
        IN  IF S = 0 THEN NaN                     \* mean 0 replaced by NaN
            ELSE IF StdIsNaN(w) THEN NaN          \* rolling std of one value
            ELSE Num(n * (n * Q - S * S), (n - 1) * S * S)]

(* ============= stability_metrics: oscillation, classification ========== *)

\* sign_changes: (derivative.shift(1) * derivative < 0).astype(int); the
\* first two rows compare with NaN and give 0
SignChanges(xs) ==
    [i \in 1..Len(xs) |->
        IF i >= 3 /\ (xs[i - 1] - xs[i - 2]) * (xs[i] - xs[i - 1]) < 0 THEN 1 ELSE 0]

RECURSIVE Factorial(_)
Factorial(n) == IF n <= 1 THEN 1 ELSE n * Factorial(n - 1)

\* sum over rows i of (rolling mean of sign_changes at i) * denom
RECURSIVE ScaledFreqSum(_, _, _, _)
ScaledFreqSum(sc, window, denom, i) ==
    IF i > Len(sc) THEN 0
    ELSE LET w == Trailing(sc, window, i)
         IN  (Sum(w) * denom) \div Len(w) + ScaledFreqSum(sc, window, denom, i + 1)

\* detect_oscillation: the mean over all rows of the rolling mean of
\* sign_changes, as an exact fraction (rows >= 1, window >= 1)
detect_oscillation(xs, window) ==
    LET sc == SignChanges(xs)
        denom == Factorial(IF window < Len(xs) THEN window ELSE Len(xs))
    IN  Frac(ScaledFreqSum(sc, window, denom, 1), Len(xs) * denom)

\* x > a/b for a fraction x
FracGreater(x, a, b) == x.n * b > a * x.d

Abs(x) == IF x < 0 THEN -x ELSE x

\* population.iloc[-window:]
Recent(xs, window) == SubSeq(xs, IF Len(xs) - window + 1 < 1 THEN 1 ELSE Len(xs) - window + 1, Len(xs))

\* the trend branch of classify_population_dynamics
TrendLabel(recent) ==
    LET cv == calculate_coefficient_of_variation(recent)
        trend == recent[Len(recent)] - recent[1]
    IN  IF LessThan(cv, Frac(1, 10))
        THEN IF 10 * Abs(trend) * Len(recent) < Sum(recent)  \* abs(trend) < mean * 0.1
             THEN "stable"
             ELSE IF trend > 0 THEN "growing" ELSE "declining"
        ELSE "unstable"

\* a classifier that knows only the labels its docstring lists
classify_population_dynamics_docstring(d, sp, window) ==
    IF sp \notin Columns(d) THEN "unknown"
    ELSE LET population == d.population[sp]
         IN  IF Len(population) = 0 THEN "IndexError"
             ELSE IF population[Len(population)] = 0 THEN "extinct"
             ELSE IF FracGreater(detect_oscillation(population, window), 3, 10)
             THEN "oscillating"
             ELSE IF TrendLabel(Recent(population, window)) = "unstable" THEN "unknown"
             ELSE TrendLabel(Recent(population, window))

\* a classifier that checks oscillation before extinction
classify_population_dynamics_swapped(d, sp, window) ==
    IF sp \notin Columns(d) THEN "unknown"
    ELSE LET population == d.population[sp]
         IN  IF Len(population) = 0 THEN "IndexError"
             ELSE IF FracGreater(detect_oscillation(population, window), 3, 10)
             THEN "oscillating"
             ELSE IF population[Len(population)] = 0 THEN "extinct"
             ELSE TrendLabel(Recent(population, window))

classify_population_dynamics(d, sp, window) ==
    IF sp \notin Columns(d) THEN "unknown"
    ELSE LET population == d.population[sp]
         IN  IF Len(population) = 0 THEN "IndexError"        \* population.iloc[-1]
             ELSE IF population[Len(population)] = 0 THEN "extinct"
             ELSE IF FracGreater(detect_oscillation(population, window), 3, 10)
             THEN "oscillating"
             ELSE TrendLabel(Recent(population, window))

(* ============ generate_full_report: extinction events ================== *)

\* a cell of a flattened table that its snapshot did not fill (NaN);
\* populations are never negative
Missing == 0 - 1

\* pop_series = df[pop_col].dropna(): the row labels that keep a value
DropNa(col) == {i \in 1..Len(col) : col[i] # Missing}

MaxOf(S) == CHOOSE m \in S : \A x \in S : x <= m

MinOf(S) == CHOOSE m \in S : \A x \in S : m <= x

\* an event that carries the tick of the last zero row
ExtinctionEventLastZero(d, sp) ==
    LET col == d.population[sp]
        kept == DropNa(col)
    IN  [species |-> sp,
         tick |-> d.tick[MaxOf({i \in kept : col[i] = 0})],
         max_population |-> MaxOf({col[i] : i \in kept})]

\* the event recorded for a species that ended at 0
ExtinctionEvent(d, sp) ==
    LET col == d.population[sp]
        kept == DropNa(col)
    IN  [species |-> sp,
         tick |-> d.tick[MinOf({i \in kept : col[i] = 0})],   \* index[0] of the zeros
         max_population |-> MaxOf({col[i] : i \in kept})]

\* whether the loop body appends an event for sp
IsExtinction(d, sp) ==
    /\ sp \in Columns(d)
    /\ DropNa(d.population[sp]) # {}
    /\ d.population[sp][MaxOf(DropNa(d.population[sp]))] = 0            \* final_pop == 0
    /\ MaxOf({d.population[sp][i] : i \in DropNa(d.population[sp])}) > 0 \* max_pop > 0

\* analyze_extinction_events: findings['extinction']
analyze_extinction_events(d, sps) ==
    LET hit == SelectSeq(sps, LAMBDA sp : IsExtinction(d, sp))
        extinctions == [k \in 1..Len(hit) |-> ExtinctionEvent(d, hit[k])]
    IN  [events |-> extinctions, count |-> Len(extinctions)]

(* ============================ loader actions =========================== *)

Idle == [op |-> "none"]

Requests == {None} \cup {Some(l) : l \in UNION {[1..n -> 1..MaxRate] : n \in 0..MaxRequest}}

Init ==
    /\ source \in Sources
    /\ reads = <<>>
    /\ files = <<>>
    /\ snapshots = <<>>
    /\ df = EmptyTable
    /\ species = <<>>
    /\ result = Idle

\* The analyzer is single-threaded and synchronous: a call starts only when
\* no call is outstanding, and the caller takes the outcome before the next.
ListAvailableRates ==
    /\ result = Idle
    /\ result' = [op |-> "list_available_rates",
                   out |-> IF source.exists
                           THEN [kind |-> "list", rates |-> list_available_rates(source)]
                           ELSE [kind |-> "FileNotFoundError", entry |-> <<>>]]
    /\ reads' = <<>>
    /\ UNCHANGED <<source, df, species, files, snapshots>>

LoadRate ==
    /\ result = Idle
    /\ \E rate \in 1..MaxRate :
        LET r == load_rate(source, rate)
        IN  /\ result' = [op |-> "load_rate", rate |-> rate, out |-> r.out]
            /\ reads' = r.reads
            /\ UNCHANGED <<source, df, species, files, snapshots>>

LoadMultirateExport ==
    /\ result = Idle
    /\ \E rates \in Requests :
        LET r == load_multirate_export(source, rates)
        IN  /\ result' = [op |-> "load_multirate_export", rates |-> rates, out |-> r.out]
            /\ reads' = r.reads
            /\ UNCHANGED <<source, df, species, files, snapshots>>

\* the caller takes the outcome of the finished call
Return ==
    /\ result # Idle
    /\ result' = Idle
    /\ reads' = <<>>
    /\ UNCHANGED <<source, df, species, files, snapshots>>

Next == ListAvailableRates \/ LoadRate \/ LoadMultirateExport \/ Return

Spec == Init /\ [][Next]_vars

(* ========================= stability actions =========================== *)

SpeciesLists == {<<"a">>, <<"a", "b">>}

InitStability ==
    /\ source = [exists |-> FALSE, kind |-> "folder", entries |-> {}]
    /\ reads = <<>>
    /\ files = <<>>
    /\ snapshots = <<>>
    /\ \E n \in 0..MaxLen : df \in Tables(n)
    /\ species \in SpeciesLists
    /\ result = Idle

DetectEquilibrium ==
    /\ result = Idle
    /\ \E window \in 1..MaxWindow, thr \in Thresholds :
        result' = [op |-> "detect_equilibrium", window |-> window, threshold |-> thr,
                   value |-> detect_equilibrium(df, species, window, thr)]
    /\ UNCHANGED <<source, reads, df, species, files, snapshots>>

CollapseThresholds == {Frac(0, 1), Frac(1, 2), Frac(1, 1)}

DetectEcosystemCollapse ==
    /\ result = Idle
    /\ \E thr \in CollapseThresholds :
        result' = [op |-> "detect_ecosystem_collapse", threshold |-> thr,
                   value |-> detect_ecosystem_collapse(df, species, thr)]
    /\ UNCHANGED <<source, reads, df, species, files, snapshots>>

CalculateBiodiversityIndex ==
    /\ result = Idle
    /\ result' = [op |-> "calculate_biodiversity_index",
                  value |-> calculate_biodiversity_index(df, species)]
    /\ UNCHANGED <<source, reads, df, species, files, snapshots>>

EvolutionDetectEquilibrium ==
    /\ result = Idle
    /\ \E window \in 1..MaxWindow, thr \in Thresholds :
        result' = [op |-> "evolution_detect_equilibrium", window |-> window,
                   threshold |-> thr,
                   value |-> evolution_detect_equilibrium(df, species, window, thr)]
    /\ UNCHANGED <<source, reads, df, species, files, snapshots>>

NextStability ==
    \/ DetectEquilibrium
    \/ DetectEcosystemCollapse
    \/ CalculateBiodiversityIndex
    \/ EvolutionDetectEquilibrium
    \/ Return

SpecStability == InitStability /\ [][NextStability]_vars

(* ========================== dynamics actions =========================== *)

\* tables with the single population column "a"
SeriesTables(n) == {d \in Tables(n) : Columns(d) \subseteq {"a"}}

InitDynamics ==
    /\ source = [exists |-> FALSE, kind |-> "folder", entries |-> {}]
    /\ reads = <<>>
    /\ files = <<>>
    /\ snapshots = <<>>
    /\ \E n \in 0..MaxLen : df \in SeriesTables(n)
    /\ species = <<"a", "b">>
    /\ result = Idle

CalculatePopulationStability ==
    /\ result = Idle
    /\ \E k \in 1..Len(species), window \in 1..MaxWindow :
        result' = [op |-> "calculate_population_stability", species |-> species[k],
                   window |-> window,
                   value |-> calculate_population_stability(df, species[k], window)]
    /\ UNCHANGED <<source, reads, df, species, files, snapshots>>

CalculateRollingCV ==
    /\ result = Idle
    /\ "a" \in Columns(df)
    /\ \E window \in 1..MaxWindow :
        result' = [op |-> "calculate_rolling_cv", species |-> "a", window |-> window,
                   value |-> calculate_rolling_cv(df.population["a"], window)]
    /\ UNCHANGED <<source, reads, df, species, files, snapshots>>

DetectOscillation ==
    /\ result = Idle
    /\ "a" \in Columns(df)
    /\ \E window \in 1..MaxWindow :
        result' = [op |-> "detect_oscillation", species |-> "a", window |-> window,
                   value |-> detect_oscillation(df.population["a"], window)]
    /\ UNCHANGED <<source, reads, df, species, files, snapshots>>

ClassifyPopulationDynamics ==
    /\ result = Idle
    /\ \E k \in 1..Len(species), window \in 1..MaxWindow :
        result' = [op |-> "classify_population_dynamics", species |-> species[k],
                   window |-> window,
                   value |-> classify_population_dynamics(df, species[k], window)]
    /\ UNCHANGED <<source, reads, df, species, files, snapshots>>

NextDynamics ==
    \/ CalculatePopulationStability
    \/ CalculateRollingCV
    \/ DetectOscillation
    \/ ClassifyPopulationDynamics
    \/ Return

SpecDynamics == InitDynamics /\ [][NextDynamics]_vars

(* ========================= extinction actions ========================== *)

\* populations of a flattened table: a count, or no count in that snapshot
FlatPops == {Missing, 0, 10}

FlatPopsB == {0, 10}

FlatTablesOfLen(n) ==
    {[tick |-> [i \in 1..n |-> TickOf(i)], population |-> [c \in {"a"} |-> x]] :
        x \in [1..n -> FlatPops]}
    \cup
    {[tick |-> [i \in 1..n |-> TickOf(i)],
      population |-> [c \in {"a", "b"} |-> IF c = "a" THEN x ELSE y]] :
        x \in [1..n -> FlatPops], y \in [1..n -> FlatPopsB]}

FlatTables(n) == IF n = 0 THEN {EmptyTable} ELSE FlatTablesOfLen(n)

\* self.data['10x'] and self.metadata['species'] of the report generator
InitExtinction ==
    /\ source = [exists |-> FALSE, kind |-> "folder", entries |-> {}]
    /\ reads = <<>>
    /\ files = <<>>
    /\ snapshots = <<>>
    /\ \E n \in 0..MaxLen : df \in FlatTables(n)
    /\ species \in SpeciesLists
    /\ result = Idle

AnalyzeExtinctionEvents ==
    /\ result = Idle
    /\ result' = [op |-> "analyze_extinction_events",
                  value |-> analyze_extinction_events(df, species)]
    /\ UNCHANGED <<source, reads, df, species, files, snapshots>>

NextExtinction == AnalyzeExtinctionEvents \/ Return

SpecExtinction == InitExtinction /\ [][NextExtinction]_vars

(* =============================== claims ================================ *)

Min(S) == CHOOSE m \in S : \A x \in S : m <= x

FracLeq(a, b) == a.n * b.d <= b.n * a.d

\* the requested rates that list_available_rates does not return
Unavailable(rates) ==
    {r \in Range(rates) : r \notin Range(list_available_rates(source))}

\* C1: load_multirate_export with an explicit rate list of which at least
\* one rate is unavailable fails with an error naming every unavailable
\* requested rate, reads no snapshot entry at all and returns no mapping.
C1_AllOrNothing ==
    (/\ result.op = "load_multirate_export"
     /\ source.exists
     /\ result.rates # None
     /\ Unavailable(result.rates.value) # {})
    => /\ result.out.kind = "ValueError"
       /\ Range(result.out.rates) = Unavailable(result.rates.value)
       /\ reads = <<>>
       /\ result.out.kind # "dict"

\* a request whose first rate could have been loaded and whose second
\* rate is unavailable
C1_Witness ==
    /\ result.op = "load_multirate_export"
    /\ source.exists
    /\ result.rates # None
    /\ Len(result.rates.value) = 2
    /\ result.rates.value[1] \notin Unavailable(result.rates.value)
    /\ SnapshotName(result.rates.value[1]) \in source.entries
    /\ result.rates.value[2] \in Unavailable(result.rates.value)
    /\ result.out.kind = "ValueError"

\* C2: load_rate of a rate that list_available_rates does not return, on an
\* existing bundle, fails with an error naming the requested rate and the
\* available rates, before any snapshot entry is read; no table is returned.
C2_UnavailableRateFails ==
    (/\ result.op = "load_rate"
     /\ source.exists
     /\ result.rate \notin Range(list_available_rates(source)))
    => /\ result.out.kind = "ValueError"
       /\ result.out.rates = <<result.rate>>
       /\ result.out.available = list_available_rates(source)
       /\ reads = <<>>

\* an unavailable rate is requested from a bundle that has other rates
C2_Witness ==
    /\ result.op = "load_rate"
    /\ source.exists
    /\ list_available_rates(source) # <<>>
    /\ result.rate \notin Range(list_available_rates(source))
    /\ result.out.kind = "ValueError"

\* the CV of a listed species over the `window` rows before 0-based row i
WindowCV(sp, window, i) ==
    calculate_coefficient_of_variation(
        [j \in 1..window |-> df.population[sp][i - window + j]])

\* the 0-based rows i in window..len-1 at which every listed species that has
\* a population column has CV <= thr over rows [i-window, i)
StableRows(window, thr) ==
    {i \in window..(Len(df.tick) - 1) :
        \A k \in 1..Len(species) :
            species[k] \in Columns(df) => AtMost(WindowCV(species[k], window, i), thr)}

C4_MonotonicInThreshold ==
    (result.op = "detect_equilibrium" /\ result.value # None)
    => \A t2 \in Thresholds :
          FracLeq(result.threshold, t2)
          => LET r2 == detect_equilibrium(df, species, result.window, t2)
             IN  r2 # None /\ r2.value <= result.value.value

\* a larger threshold gives a strictly earlier tick
C4_Witness ==
    /\ result.op = "detect_equilibrium"
    /\ result.value # None
    /\ \E t2 \in Thresholds :
          /\ FracLeq(result.threshold, t2)
          /\ detect_equilibrium(df, species, result.window, t2) # None
          /\ detect_equilibrium(df, species, result.window, t2).value
                 < result.value.value

\* fraction of the listed species that are extinct at row idx, as a Frac
ExtinctFraction(idx) ==
    Frac(Cardinality({k \in 1..Len(species) :
                         species[k] \in Columns(df)
                         /\ df.population[species[k]][idx] = 0}),
         Len(species))

\* rows whose extinct fraction is strictly above thr
CollapseRows(thr) ==
    {idx \in Rows(df) : ~FracLeq(ExtinctFraction(idx), thr)}

\* C7: detect_ecosystem_collapse returns (True, tick) for the first row at
\* which count(population == 0)/|species| is strictly greater than the
\* threshold, else (False, None); a fraction equal to the threshold is not a
\* collapse and the denominator is the full length of the species list.
C7_FirstCollapseRow ==
    result.op = "detect_ecosystem_collapse"
    => result.value =
          IF CollapseRows(result.threshold) = {}
          THEN [kind |-> "return", collapsed |-> FALSE, tick |-> None]
          ELSE [kind |-> "return", collapsed |-> TRUE,
                tick |-> Some(df.tick[Min(CollapseRows(result.threshold))])]

\* half of the species extinct in an earlier row (no collapse at 0.5), all
\* of them extinct in a later row, which is the one reported
C7_Witness ==
    /\ result.op = "detect_ecosystem_collapse"
    /\ result.threshold = Frac(1, 2)
    /\ Len(species) = 2
    /\ ExtinctFraction(1) = Frac(1, 2)
    /\ result.value.kind = "return"
    /\ result.value.collapsed
    /\ result.value.tick # Some(df.tick[1])

\* total population of the listed species at row idx
TotalAt(idx) == Sum(PopulationsAt(df, species, idx))

\* number of listed species with a positive population at row idx
PositiveAt(idx) ==
    Cardinality({k \in 1..Len(species) :
                    species[k] \in Columns(df) /\ df.population[species[k]][idx] > 0})

\* C8 as stated: the index is a defined number at every row and is 0
\* exactly when the total population of the listed species is 0.
C8_ZeroIffTotalZero ==
    result.op = "calculate_biodiversity_index"
    => \A idx \in Rows(df) :
          /\ ShannonDefined(result.value[idx])
          /\ ShannonIsZero(result.value[idx]) <=> TotalAt(idx) = 0

\* C8 amended: the index is a defined number at every row; it is 0 whenever
\* the total population is 0, and more generally exactly when at most one
\* listed species has a positive population.
C8_ZeroIffAtMostOnePositive ==
    result.op = "calculate_biodiversity_index"
    => \A idx \in Rows(df) :
          /\ ShannonDefined(result.value[idx])
          /\ TotalAt(idx) = 0 => ShannonIsZero(result.value[idx])
          /\ ShannonIsZero(result.value[idx]) <=> PositiveAt(idx) <= 1

\* a row with total 0, a row with one living species and a row with two
C8_Witness ==
    /\ result.op = "calculate_biodiversity_index"
    /\ \E i, j, k \in Rows(df) :
          /\ TotalAt(i) = 0
          /\ PositiveAt(j) = 1 /\ ShannonIsZero(result.value[j])
          /\ PositiveAt(k) = 2 /\ ~ShannonIsZero(result.value[k])

\* rows of the series whose trailing window has mean 0
ZeroMeanRows(xs, window) ==
    {i \in 1..Len(xs) :
        Sum(SubSeq(xs, IF i - window + 1 < 1 THEN 1 ELSE i - window + 1, i)) = 0}

\* C5: at every index where the mean of the trailing window is 0 the rolling
\* CV is +infinity (not NaN), for every rolling-CV routine: the per-window
\* calculate_coefficient_of_variation and calculate_rolling_cv.
C5_ZeroMeanIsInfinity ==
    (/\ result.op \in {"calculate_population_stability", "calculate_rolling_cv"}
     /\ result.species \in Columns(df))
    => \A i \in ZeroMeanRows(df.population[result.species], result.window) :
          LET cvs == IF result.op = "calculate_rolling_cv" THEN result.value
                     ELSE result.value.rolling_cv
          IN  cvs[i] = Inf

\* the species whose population series the classifier reads
Population == df.population[result.species]

Labels == {"extinct", "oscillating", "stable", "growing", "declining", "unstable"}

LastRows == [j \in 1..(IF result.window < Len(Population) THEN result.window
                       ELSE Len(Population)) |->
                Population[Len(Population)
                           - (IF result.window < Len(Population) THEN result.window
                              ELSE Len(Population)) + j]]

Oscillating == FracGreater(detect_oscillation(Population, result.window), 3, 10)

LowCV == LessThan(calculate_coefficient_of_variation(LastRows), Frac(1, 10))

NetChange == LastRows[Len(LastRows)] - LastRows[1]

\* |last - first| < 10% of the mean of the last rows
SmallChange == 10 * Abs(NetChange) * Len(LastRows) < Sum(LastRows)

Recorded(sp) == {i \in Rows(df) : df.population[sp][i] # Missing}

\* the listed species whose last recorded population is 0 and whose largest
\* recorded population is > 0
Extinct(sp) ==
    /\ sp \in Columns(df)
    /\ Recorded(sp) # {}
    /\ df.population[sp][MaxOf(Recorded(sp))] = 0
    /\ \E i \in Recorded(sp) : df.population[sp][i] > 0

\* C6: the extinction detector reports exactly the listed species whose
\* population ends at 0 (last row that records it) and whose maximum over
\* the run is > 0; a species at 0 in every row is never reported; each event
\* carries the tick of the first row in which the population is 0, even if
\* it recovered later, and the historical maximum.
C6_ExtinctionEvents ==
    result.op = "analyze_extinction_events"
    => LET events == result.value.events
       IN  /\ {events[k].species : k \in 1..Len(events)}
                  = {species[k] : k \in {j \in 1..Len(species) : Extinct(species[j])}}
           /\ Len(events) = Cardinality({j \in 1..Len(species) : Extinct(species[j])})
           /\ result.value.count = Len(events)
           /\ \A k \in 1..Len(events) :
                 LET col == df.population[events[k].species]
                 IN  /\ \E i \in Rows(df) :
                           /\ col[i] = 0
                           /\ \A j \in 1..(i - 1) : col[j] # 0
                           /\ events[k].tick = df.tick[i]
                     /\ \E i \in Rows(df) : col[i] = events[k].max_population
                     /\ \A i \in Rows(df) : col[i] <= events[k].max_population
                     /\ events[k].max_population > 0

\* a species that hit 0, recovered, and ended at 0: the event names the
\* first zero row; a species at 0 throughout is listed and not reported
C6_Witness ==
    /\ result.op = "analyze_extinction_events"
    /\ species = <<"a", "b">>
    /\ Columns(df) = {"a", "b"}
    /\ \A i \in Rows(df) : df.population["b"][i] = 0
    /\ Len(df.tick) = 4
    /\ df.population["a"] = <<10, 0, 10, 0>>
    /\ result.value.events =
          <<[species |-> "a", tick |-> df.tick[2], max_population |-> 10]>>


(* ============ stability_metrics: predator-prey cycles ================== *)

\* longest table of the cycle runs: three peaks with gaps 2 and 6 fit
MaxCycleLen == 11

\* the species of sps that have a population column, in list order
WithColumn(d, sps) == SelectSeq(sps, LAMBDA sp : sp \in Columns(d))

\* sum(df[f'{sp}_population'] for sp in sps if the column exists) at one row
AggregateAt(d, sps, idx) ==
    LET cols == WithColumn(d, sps)
    IN  Sum([k \in 1..Len(cols) |-> d.population[cols[k]][idx]])

\* the 0-based positions i in range(1, len - 1) that are strict local maxima
PreyPeaksPlateau(total) ==
    SelectSeq([j \in 1..Len(total) |-> j - 1],
              LAMBDA i : /\ i >= 1
                         /\ i <= Len(total) - 2
                         /\ total[i + 1] >= total[i]
                         /\ total[i + 1] > total[i + 2])

PreyPeaks(total) ==
    SelectSeq([j \in 1..Len(total) |-> j - 1],
              LAMBDA i : /\ i >= 1
                         /\ i <= Len(total) - 2
                         /\ total[i + 1] > total[i]
                         /\ total[i + 1] > total[i + 2])

\* periods = [prey_peaks[i+1] - prey_peaks[i] ...]
Periods(prey_peaks) ==
    [i \in 1..(Len(prey_peaks) - 1) |-> prey_peaks[i + 1] - prey_peaks[i]]

\* np.std(periods) / avg_period < 0.5 with the population standard
\* deviation: var = (k*Q - S*S)/k^2 and avg = S/k, so 4*(k*Q - S*S) < S*S.
\* avg_period > 0 always, peaks being distinct increasing positions.
PeriodCVBelowHalf(periods) ==
    LET k == Len(periods)
        S == Sum(periods)
        Q == SumSq(periods)
    IN  4 * (k * Q - S * S) < S * S

CyclesOfPeaks(prey_peaks, min_period) ==
    IF Len(prey_peaks) < 2
    THEN [kind |-> "return", has_cycles |-> FALSE, avg_period |-> None]
    ELSE LET periods == Periods(prey_peaks)
             k == Len(periods)
             S == Sum(periods)
             has_cycles == S >= min_period * k /\ PeriodCVBelowHalf(periods)
         IN  [kind |-> "return", has_cycles |-> has_cycles,
              avg_period |-> IF has_cycles THEN Some(Frac(S, k)) ELSE None]

\* predator_total is computed and never used.  With no prey column (as in
\* a table without columns) the aggregate is the int 0 of sum() and
\* len(prey_total) is a TypeError.
detect_predator_prey_cycles(d, prey_species, predator_species, min_period) ==
    IF Len(WithColumn(d, prey_species)) = 0
    THEN [kind |-> "TypeError"]
    ELSE LET prey_total == [idx \in Rows(d) |-> AggregateAt(d, prey_species, idx)]
         IN  CyclesOfPeaks(PreyPeaks(prey_total), min_period)

(* ============================ cycle actions ============================ *)

\* ticks between two consecutive rows: every tick, or a decimated rate
TickSteps == {1, 10}

CyclePops == {0, 1}

\* second prey column: 1 on odd rows, 0 on even rows
Alternating(n) == [i \in 1..n |-> i % 2]

\* a table of n rows, step ticks apart, with prey column a and, when
\* second holds, prey column b
CycleTable(n, step, x, second) ==
    [tick |-> [i \in 1..n |-> step * i],
     population |-> [c \in (IF second THEN {"a", "b"} ELSE {"a"}) |->
                        IF c = "a" THEN x ELSE Alternating(n)]]

\* a clean pattern of period 20 over 5 full cycles, one row per tick
CleanCycle ==
    [i \in 1..100 |-> LET phase == (i - 1) % 20
                      IN  IF phase <= 10 THEN phase ELSE 20 - phase]

CleanCycleTable ==
    [tick |-> [i \in 1..100 |-> i], population |-> [c \in {"a"} |-> CleanCycle]]

PreyLists == {<<"a">>, <<"a", "b">>}

PredatorLists == {<<"predator">>}

MinPeriods == {2, 3, 10}

InitCycles ==
    /\ source = [exists |-> FALSE, kind |-> "folder", entries |-> {}]
    /\ reads = <<>>
    /\ files = <<>>
    /\ snapshots = <<>>
    /\ \/ df \in {EmptyTable, CleanCycleTable}
       \/ \E n \in 1..MaxCycleLen, step \in TickSteps, second \in BOOLEAN :
            \E x \in [1..n -> CyclePops] : df = CycleTable(n, step, x, second)
    /\ species \in PreyLists
    /\ result = Idle

DetectPredatorPreyCycles ==
    /\ result = Idle
    /\ \E predators \in PredatorLists, min_period \in MinPeriods :
        result' = [op |-> "detect_predator_prey_cycles", min_period |-> min_period,
                   value |-> detect_predator_prey_cycles(df, species, predators,
                                                         min_period)]
    /\ UNCHANGED <<source, reads, df, species, files, snapshots>>

NextCycles == DetectPredatorPreyCycles \/ Return

SpecCycles == InitCycles /\ [][NextCycles]_vars


(* ========================= claims: cycles ============================== *)

\* the prey aggregate of the table at row idx, over the listed prey
\* species that have a population column
PreyAggregate(idx) ==
    LET cols == {k \in 1..Len(species) : species[k] \in Columns(df)}
        RECURSIVE Add(_)
        Add(K) == IF K = {} THEN 0
                  ELSE LET k == CHOOSE x \in K : TRUE
                       IN  df.population[species[k]][idx] + Add(K \ {k})
    IN  Add(cols)

HasPreyColumn == \E k \in 1..Len(species) : species[k] \in Columns(df)

\* the rows that are strict local maxima of the prey aggregate
PeakRows ==
    {j \in Rows(df) : /\ j - 1 \in Rows(df)
                      /\ j + 1 \in Rows(df)
                      /\ PreyAggregate(j) > PreyAggregate(j - 1)
                      /\ PreyAggregate(j) > PreyAggregate(j + 1)}

\* the pairs of consecutive elements of a set of numbers
Consecutive(P) ==
    {pq \in P \X P : pq[1] < pq[2] /\ ~ \E r \in P : pq[1] < r /\ r < pq[2]}

RECURSIVE SumOver(_, _)
SumOver(S, f) ==
    IF S = {} THEN 0
    ELSE LET x == CHOOSE y \in S : TRUE IN f[x] + SumOver(S \ {x}, f)

\* number, sum and sum of squares of the gaps between consecutive peaks,
\* where at(j) is the position of row j on the axis the gaps are measured on
GapStats(at) ==
    LET pairs == Consecutive(PeakRows)
        gap == [pq \in pairs |-> at[pq[2]] - at[pq[1]]]
    IN  [k |-> Cardinality(pairs),
         S |-> SumOver(pairs, gap),
         Q |-> SumOver(pairs, [pq \in pairs |-> gap[pq] * gap[pq]])]

\* mean gap >= min_period and coefficient of variation of the gaps < 0.5
Accepts(g, min_period) ==
    /\ g.k >= 1
    /\ g.S >= min_period * g.k
    /\ 4 * (g.k * g.Q - g.S * g.S) < g.S * g.S

CycleOutcome(g) ==
    /\ result.value.kind = "return"
    /\ result.value.has_cycles = Accepts(g, result.min_period)
    /\ IF Accepts(g, result.min_period)
       THEN /\ result.value.avg_period.some
            /\ result.value.avg_period.value.n * g.k = g.S * result.value.avg_period.value.d
       ELSE result.value.avg_period = None

RowGaps == GapStats([j \in Rows(df) |-> j])

TickGaps == GapStats(df.tick)

C12_GapsAreTickGaps ==
    (result # Idle /\ result.op = "detect_predator_prey_cycles" /\ HasPreyColumn) =>
        CycleOutcome(TickGaps)


(* ===================== jsonl_loader: text and JSON ===================== *)

\* A line of text is a sequence of pieces.  Punctuation, blanks and the
\* letters of header keys are pieces of one character; the sentinel words
\* and the members of a JSON object are pieces of several characters.
Blank == " "

Newline == "\n"

CarriageReturn == "\r"

IsSpace(piece) == piece \in {Blank, Newline, CarriageReturn}

\* str.strip()
RECURSIVE LStrip(_)
LStrip(text) ==
    IF text # <<>> /\ IsSpace(Head(text)) THEN LStrip(Tail(text)) ELSE text

RECURSIVE RStrip(_)
RStrip(text) ==
    IF text # <<>> /\ IsSpace(text[Len(text)])
    THEN RStrip(SubSeq(text, 1, Len(text) - 1))
    ELSE text

Strip(text) == RStrip(LStrip(text))

\* str.startswith
StartsWith(text, prefix) ==
    Len(text) >= Len(prefix) /\ SubSeq(text, 1, Len(prefix)) = prefix

ConfigStart == <<"#", Blank, "CONFIG_START">>

ConfigEnd == <<"#", Blank, "CONFIG_END">>

\* values of json.loads
JInt(n) == [type |-> "int", value |-> n]

JStr(text) == [type |-> "str", value |-> text]

\* the members a JSON object of the runs may hold, as "key:value" pieces
Members ==
    [piece \in {"tick:1", "tick:2", "id:a", "id:b", "seed:1"} |->
        CASE piece = "tick:1" -> [key |-> "tick", value |-> JInt(1)]
          [] piece = "tick:2" -> [key |-> "tick", value |-> JInt(2)]
          [] piece = "id:a"   -> [key |-> "id", value |-> JStr("a")]
          [] piece = "id:b"   -> [key |-> "id", value |-> JStr("b")]
          [] piece = "seed:1" -> [key |-> "seed", value |-> JInt(1)]]

JDict(items) == [type |-> "dict", items |-> items]

JList(n) == [type |-> "list", length |-> n]

JNull == [type |-> "null"]

JSONDecodeError == [type |-> "JSONDecodeError"]

\* "{" member ("," member)* "}" or "{" "}"
IsObjectText(t) ==
    /\ Len(t) >= 2
    /\ t[1] = "{"
    /\ t[Len(t)] = "}"
    /\ LET inner == SubSeq(t, 2, Len(t) - 1)
       IN  \/ inner = <<>>
           \/ /\ Len(inner) % 2 = 1
              /\ \A i \in 1..Len(inner) :
                    IF i % 2 = 1 THEN inner[i] \in DOMAIN Members ELSE inner[i] = ","

\* the dict of an object text; a repeated key keeps its last value
ObjectItems(t) ==
    LET inner == SubSeq(t, 2, Len(t) - 1)
        at == {i \in 1..Len(inner) : i % 2 = 1}
        keys == {Members[inner[i]].key : i \in at}
        last(k) == CHOOSE i \in at :
                      /\ Members[inner[i]].key = k
                      /\ \A j \in at : Members[inner[j]].key = k => j <= i
    IN  [k \in keys |-> Members[inner[last(k)]].value]

\* json.loads: blanks and newlines between tokens are insignificant
JsonLoads(text) ==
    LET t == SelectSeq(text, LAMBDA piece : ~IsSpace(piece))
    IN  CASE IsObjectText(t) -> JDict(ObjectItems(t))
          [] t = <<"[", "]">> -> JList(0)
          [] t = <<"[", "1", "]">> -> JList(1)
          [] t = <<"0">> -> JInt(0)
          [] t = <<"5">> -> JInt(5)
          [] t = <<"null">> -> JNull
          [] OTHER -> JSONDecodeError

\* the Python value of a parsed text: None for JSON null
PyValue(v) == IF v = JNull THEN None ELSE Some(v)

\* bool(value)
Truthy(v) ==
    CASE v.type = "dict" -> DOMAIN v.items # {}
      [] v.type = "int" -> v.value # 0
      [] v.type = "list" -> v.length # 0
      [] OTHER -> FALSE

\* Returns None for comments, empty lines and malformed lines.
parse_jsonl_line(line) ==
    LET stripped == Strip(line)
    IN  IF stripped = <<>> \/ StartsWith(stripped, <<"#">>)
        THEN None
        ELSE IF JsonLoads(stripped) = JSONDecodeError
             THEN None
             ELSE PyValue(JsonLoads(stripped))


(* ================= jsonl_loader: header and file loading =============== *)

\* "\n".join(texts)
RECURSIVE Join(_)
Join(texts) ==
    IF texts = <<>> THEN <<>>
    ELSE IF Len(texts) = 1 THEN texts[1]
    ELSE texts[1] \o <<Newline>> \o Join(Tail(texts))

\* the loop of extract_config_block from line i on: the "# " lines after a
\* "# CONFIG_START", up to the first "# CONFIG_END" or the end of the lines
RECURSIVE ConfigLines(_, _, _, _)
ConfigLines(lines, i, in_config, config_lines) ==
    IF i > Len(lines) THEN config_lines
    ELSE LET line == Strip(lines[i])
         IN  IF line = ConfigStart
             THEN ConfigLines(lines, i + 1, TRUE, config_lines)
             ELSE IF line = ConfigEnd
             THEN config_lines
             ELSE IF in_config /\ StartsWith(line, <<"#", Blank>>)
             THEN ConfigLines(lines, i + 1, in_config,
                              Append(config_lines, SubSeq(line, 3, Len(line))))
             ELSE ConfigLines(lines, i + 1, in_config, config_lines)

\* None when nothing was collected or the collected text does not parse
extract_config_block(lines) ==
    LET config_lines == ConfigLines(lines, 1, FALSE, <<>>)
    IN  IF config_lines = <<>> THEN None
        ELSE IF JsonLoads(Join(config_lines)) = JSONDecodeError THEN None
        ELSE PyValue(JsonLoads(Join(config_lines)))

\* the pieces of more than one character, without their first character
CharTail ==
    [piece \in {"CONFIG_START", "CONFIG_END", "null",
                "tick:1", "tick:2", "id:a", "id:b", "seed:1"} |->
        CASE piece = "CONFIG_START" -> "ONFIG_START"
          [] piece = "CONFIG_END" -> "ONFIG_END"
          [] piece = "null" -> "ull"
          [] piece = "tick:1" -> "ick:1"
          [] piece = "tick:2" -> "ick:2"
          [] piece = "id:a" -> "d:a"
          [] piece = "id:b" -> "d:b"
          [] piece = "seed:1" -> "eed:1"]

\* line[2:] of a line that starts with the one-character piece "#"
DropTwo(line) ==
    IF Len(line) <= 1 THEN <<>>
    ELSE IF line[2] \in DOMAIN CharTail
    THEN <<CharTail[line[2]]>> \o SubSeq(line, 3, Len(line))
    ELSE SubSeq(line, 3, Len(line))

\* the text before and after the ':' inside a piece that holds one
ColonParts ==
    [piece \in {"tick:1", "tick:2", "id:a", "id:b", "seed:1",
                "ick:1", "ick:2", "d:a", "d:b", "eed:1"} |->
        CASE piece = "tick:1" -> <<"tick", "1">>
          [] piece = "tick:2" -> <<"tick", "2">>
          [] piece = "id:a" -> <<"id", "a">>
          [] piece = "id:b" -> <<"id", "b">>
          [] piece = "seed:1" -> <<"seed", "1">>
          [] piece = "ick:1" -> <<"ick", "1">>
          [] piece = "ick:2" -> <<"ick", "2">>
          [] piece = "d:a" -> <<"d", "a">>
          [] piece = "d:b" -> <<"d", "b">>
          [] piece = "eed:1" -> <<"eed", "1">>]

HasColon(piece) == piece = ":" \/ piece \in DOMAIN ColonParts

\* content.split(":", 1) for a content that holds a ':'
SplitColon(content) ==
    LET at == CHOOSE i \in 1..Len(content) :
                 HasColon(content[i]) /\ \A j \in 1..(i - 1) : ~HasColon(content[j])
        before == SubSeq(content, 1, at - 1)
        after == SubSeq(content, at + 1, Len(content))
    IN  IF content[at] = ":"
        THEN [key |-> before, value |-> after]
        ELSE [key |-> Append(before, ColonParts[content[at]][1]),
              value |-> <<ColonParts[content[at]][2]>> \o after]

\* str.lower() on the letters of header keys
Lower(piece) ==
    CASE piece = "K" -> "k"
      [] piece = "J" -> "j"
      [] OTHER -> piece

\* key.strip().lower().replace(" ", "_")
NormalKey(key) ==
    LET stripped == Strip(key)
    IN  [i \in 1..Len(stripped) |->
            IF stripped[i] = Blank THEN "_" ELSE Lower(stripped[i])]

\* only the first 20 lines are checked
HeaderLines == 20

\* the loop of extract_metadata from line i on
RECURSIVE MetadataFrom(_, _, _)
MetadataFrom(lines, i, metadata) ==
    IF i > Len(lines) \/ i > HeaderLines THEN metadata
    ELSE LET line == Strip(lines[i])
             content == Strip(DropTwo(line))
         IN  IF ~StartsWith(line, <<"#">>) \/ ~\E j \in 1..Len(content) : HasColon(content[j])
             THEN MetadataFrom(lines, i + 1, metadata)
             ELSE LET kv == SplitColon(content)
                      key == NormalKey(kv.key)
                  IN  MetadataFrom(lines, i + 1,
                        [k \in DOMAIN metadata \cup {key} |->
                            IF k = key THEN Strip(kv.value) ELSE metadata[k]])

extract_metadata(lines) == MetadataFrom(lines, 1, <<>>)

\* the data lines of a file, parsed, in file order
RECURSIVE ParseLines(_)
ParseLines(lines) ==
    IF lines = <<>> THEN <<>>
    ELSE LET data == parse_jsonl_line(Head(lines))
         IN  IF data # None
             THEN <<data.value>> \o ParseLines(Tail(lines))
             ELSE ParseLines(Tail(lines))

\* jsonl_loader.load_jsonl_file of an existing file
load_jsonl_file(lines) ==
    [snapshots |-> ParseLines(lines),
     config |-> extract_config_block(lines),
     metadata |-> extract_metadata(lines)]


(* ============ multirate_loader: parsing the text of an entry =========== *)

AllSpace(line) == Strip(line) = <<>>

RECURSIVE DropLeadingSpace(_)
DropLeadingSpace(lines) ==
    IF lines # <<>> /\ AllSpace(Head(lines))
    THEN DropLeadingSpace(Tail(lines))
    ELSE lines

RECURSIVE DropTrailingSpace(_)
DropTrailingSpace(lines) ==
    IF lines # <<>> /\ AllSpace(lines[Len(lines)])
    THEN DropTrailingSpace(SubSeq(lines, 1, Len(lines) - 1))
    ELSE lines

\* content.strip().split('\n'): blank lines at both ends go, the first
\* line loses its leading and the last its trailing blanks; an empty
\* content is one empty line
ContentLines(lines) ==
    LET kept == DropTrailingSpace(DropLeadingSpace(lines))
    IN  IF kept = <<>> THEN << <<>> >>
        ELSE [i \in 1..Len(kept) |->
                LET l == IF i = 1 THEN LStrip(kept[i]) ELSE kept[i]
                IN  IF i = Len(kept) THEN RStrip(l) ELSE l]

\* the snapshot loop of the string mode: `if snapshot:` keeps truthy values
RECURSIVE ParseContentLines(_)
ParseContentLines(lines) ==
    IF lines = <<>> THEN <<>>
    ELSE LET line == Head(lines)
             snapshot == parse_jsonl_line(line)
         IN  IF /\ Strip(line) # <<>>
                /\ ~StartsWith(Strip(line), <<"#">>)
                /\ snapshot # None
                /\ Truthy(snapshot.value)
             THEN <<snapshot.value>> \o ParseContentLines(Tail(lines))
             ELSE ParseContentLines(Tail(lines))

\* multirate_loader.load_jsonl_file(content, is_string=True); the values
\* are named by what they hold, the tuple order is (snapshots, metadata,
\* config)
load_jsonl_string(content) ==
    LET lines == ContentLines(content)
    IN  [snapshots |-> ParseContentLines(lines),
         config |-> extract_config_block(lines),
         metadata |-> extract_metadata(lines)]


(* ================ jsonl_loader: snapshots and tables =================== *)

\* dict.get(key, default)
Get(items, key, default) == IF key \in DOMAIN items THEN items[key] ELSE default

EmptyDict == JDict(<<>>)

\* a flattening that dumps a nested dict the way it dumps a list
flatten_snapshot_dumped(items, prefix) ==
    [c \in {Append(prefix, k) : k \in DOMAIN items} |->
        LET k == c[Len(prefix) + 1]
        IN  IF items[k].type \in {"dict", "list"}
            THEN [type |-> "str", value |-> "json", dumped |-> items[k]]
            ELSE items[k]]

\* Column names are kept as the sequence of the keys that the '_' joins:
\* <<"genetics", "a", "speed">> is the column genetics_a_speed.
\* A nested dict is flattened recursively, a list is dumped to a string.
RECURSIVE flatten_snapshot(_, _)
flatten_snapshot(items, prefix) ==
    LET nested == {k \in DOMAIN items : items[k].type = "dict"}
        scalar == DOMAIN items \ nested
        sub(k) == flatten_snapshot(items[k].items, Append(prefix, k))
        cols == {Append(prefix, k) : k \in scalar}
                  \cup UNION {DOMAIN sub(k) : k \in nested}
    IN  [c \in cols |->
            LET k == c[Len(prefix) + 1]
            IN  IF k \in nested THEN sub(k)[c]
                ELSE IF items[k].type = "list"
                     THEN [type |-> "str", value |-> "json", dumped |-> items[k]]
                     ELSE items[k]]

\* flatten_snapshots: [flatten_snapshot(s) for s in snapshots]
flatten_snapshots(snaps) ==
    [i \in 1..Len(snaps) |-> flatten_snapshot(snaps[i].items, <<>>)]

\* a cell that pandas holds for a key the row does not have
NaNCell == [type |-> "nan"]

\* isna: NaN and None
IsNA(cell) == cell.type \in {"nan", "null"}

\* pd.DataFrame(list of dicts): the columns are the union of the keys, a
\* missing key is NaN
DataFrame(data) ==
    LET columns == UNION {DOMAIN data[i] : i \in 1..Len(data)}
    IN  [columns |-> columns,
         rows |-> [i \in 1..Len(data) |->
                      [c \in columns |-> IF c \in DOMAIN data[i] THEN data[i][c]
                                         ELSE NaNCell]]]

\* col.startswith("genetics_")
IsGeneticsColumn(c) == Len(c) >= 2 /\ c[1] = "genetics"

\* DataFrame.ffill on one column: the last valid value at or before row i
FFillBackward(rows, c, i) ==
    IF \E j \in i..Len(rows) : ~IsNA(rows[j][c])
    THEN rows[CHOOSE j \in i..Len(rows) :
                /\ ~IsNA(rows[j][c])
                /\ \A m \in i..Len(rows) : ~IsNA(rows[m][c]) => j <= m][c]
    ELSE rows[i][c]

FFill(rows, c, i) ==
    IF \E j \in 1..i : ~IsNA(rows[j][c])
    THEN rows[CHOOSE j \in 1..i :
                /\ ~IsNA(rows[j][c])
                /\ \A m \in 1..i : ~IsNA(rows[m][c]) => m <= j][c]
    ELSE rows[i][c]

\* df[genetics_cols] = df[genetics_cols].ffill()
FillGenetics(frame) ==
    [kind |-> "df",
     columns |-> frame.columns,
     rows |-> [i \in 1..Len(frame.rows) |->
                 [c \in frame.columns |->
                     IF IsGeneticsColumn(c) THEN FFill(frame.rows, c, i)
                     ELSE frame.rows[i][c]]]]

\* flatten_snapshots(snapshots), or the snapshots as they are: the rows
\* handed to pd.DataFrame
FrameData(snaps, flatten) ==
    [i \in 1..Len(snaps) |->
        IF flatten THEN flatten_snapshot(snaps[i].items, <<>>)
        ELSE [c \in {<<k>> : k \in DOMAIN snaps[i].items} |-> snaps[i].items[c[1]]]]

\* snapshots_to_dataframe; with flatten a snapshot that is not a dict has
\* no items() and the call raises AttributeError.  The runs hold no
\* timestamp key, so the datetime conversion is not taken.
snapshots_to_dataframe(snaps, flatten, fill_missing_genetics) ==
    IF flatten /\ \E i \in 1..Len(snaps) : snaps[i].type # "dict"
    THEN [kind |-> "AttributeError"]
    ELSE IF fill_missing_genetics
         THEN FillGenetics(DataFrame(FrameData(snaps, flatten)))
         ELSE [kind |-> "df"] @@ DataFrame(FrameData(snaps, flatten))

\* sorted() of species names: code point order, capitals before small letters
SpeciesNames == <<"Wolf", "a", "b">>

RECURSIVE SortedNames(_, _)
SortedNames(names, i) ==
    IF i > Len(SpeciesNames) THEN <<>>
    ELSE IF SpeciesNames[i] \in names
         THEN <<SpeciesNames[i]>> \o SortedNames(names, i + 1)
         ELSE SortedNames(names, i + 1)

\* the keys of a sub-record that is present and is a dict
KeysOf(snapshot, key) ==
    IF key \in DOMAIN snapshot.items /\ snapshot.items[key].type = "dict"
    THEN DOMAIN snapshot.items[key].items
    ELSE {}

detect_species_from_populations(snaps) ==
    SortedNames(UNION {KeysOf(snaps[i], "populations") : i \in 1..Len(snaps)}, 1)

detect_species_from_snapshots(snaps) ==
    SortedNames(UNION {KeysOf(snaps[i], "populations") \cup KeysOf(snaps[i], "genetics")
                         \cup KeysOf(snaps[i], "energy") : i \in 1..Len(snaps)}, 1)


(* ============== jsonl_loader: convert_jsonl_to_csv_format ============== *)

DeathCauses == {"old_age", "starvation", "predation"}

EnergyStats == {"mean", "min", "max"}

\* the columns of a row; the timestamp column is renamed to date
CsvColumns(sps) ==
    {<<"tick">>, <<"date">>, <<"deltaSeconds">>,
     <<"prey_food_count">>, <<"predator_food_count">>, <<"atmosphere_event">>}
    \cup {<<sps[k], field>> : k \in 1..Len(sps), field \in {"population", "births", "deaths"}}
    \cup {<<sps[k], "deaths", cause>> : k \in 1..Len(sps), cause \in DeathCauses}
    \cup {<<sps[k], "energy", stat>> : k \in 1..Len(sps), stat \in EnergyStats}

\* snapshot.get(key, {}) of a sub-record
SubRecord(items, key) == Get(items, key, EmptyDict)

\* .get on a value that is not a dict: AttributeError
CsvRowRaises(items, sps) ==
    \/ \E key \in {"populations", "births", "deaths", "deathsByCause", "energy",
                   "environment", "atmosphere"} : SubRecord(items, key).type # "dict"
    \/ /\ SubRecord(items, "environment").type = "dict"
       /\ SubRecord(SubRecord(items, "environment").items, "foodSources").type # "dict"
    \/ \E k \in 1..Len(sps) :
          \E key \in {"deathsByCause", "energy"} :
             /\ SubRecord(items, key).type = "dict"
             /\ SubRecord(SubRecord(items, key).items, sps[k]).type # "dict"

Zero == JInt(0)

\* the row without the defaults of births: a missing key gives no value
CsvCellSparse(items, c) ==
    LET food == SubRecord(SubRecord(items, "environment").items, "foodSources").items
    IN  CASE c = <<"tick">> -> Get(items, "tick", Zero)
          [] c = <<"date">> -> Get(items, "timestamp", Zero)
          [] c = <<"deltaSeconds">> -> Get(items, "deltaSeconds", Zero)
          [] c = <<"prey_food_count">> -> Get(food, "prey", Zero)
          [] c = <<"predator_food_count">> -> Get(food, "predator", Zero)
          [] c = <<"atmosphere_event">> ->
                Get(SubRecord(items, "atmosphere").items, "event", JStr("none"))
          [] Len(c) = 2 /\ c[2] = "population" ->
                Get(SubRecord(items, "populations").items, c[1], Zero)
          [] Len(c) = 2 /\ c[2] = "births" ->
                Get(SubRecord(items, "births").items, c[1], NaNCell)
          [] Len(c) = 2 /\ c[2] = "deaths" ->
                Get(SubRecord(items, "deaths").items, c[1], Zero)
          [] Len(c) = 3 /\ c[2] = "deaths" ->
                Get(SubRecord(SubRecord(items, "deathsByCause").items, c[1]).items,
                    c[3], Zero)
          [] Len(c) = 3 /\ c[2] = "energy" ->
                Get(SubRecord(SubRecord(items, "energy").items, c[1]).items, c[3], Zero)

CsvCell(items, c) ==
    LET food == SubRecord(SubRecord(items, "environment").items, "foodSources").items
    IN  CASE c = <<"tick">> -> Get(items, "tick", Zero)
          [] c = <<"date">> -> Get(items, "timestamp", Zero)
          [] c = <<"deltaSeconds">> -> Get(items, "deltaSeconds", Zero)
          [] c = <<"prey_food_count">> -> Get(food, "prey", Zero)
          [] c = <<"predator_food_count">> -> Get(food, "predator", Zero)
          [] c = <<"atmosphere_event">> ->
                Get(SubRecord(items, "atmosphere").items, "event", JStr("none"))
          [] Len(c) = 2 /\ c[2] = "population" ->
                Get(SubRecord(items, "populations").items, c[1], Zero)
          [] Len(c) = 2 /\ c[2] = "births" ->
                Get(SubRecord(items, "births").items, c[1], Zero)
          [] Len(c) = 2 /\ c[2] = "deaths" ->
                Get(SubRecord(items, "deaths").items, c[1], Zero)
          [] Len(c) = 3 /\ c[2] = "deaths" ->
                Get(SubRecord(SubRecord(items, "deathsByCause").items, c[1]).items,
                    c[3], Zero)
          [] Len(c) = 3 /\ c[2] = "energy" ->
                Get(SubRecord(SubRecord(items, "energy").items, c[1]).items, c[3], Zero)

\* no rows give a table without columns
convert_jsonl_to_csv_format(snaps, sps) ==
    IF \E i \in 1..Len(snaps) : CsvRowRaises(snaps[i].items, sps)
    THEN [kind |-> "AttributeError"]
    ELSE [kind |-> "df",
          columns |-> IF snaps = <<>> THEN {} ELSE CsvColumns(sps),
          rows |-> [i \in 1..Len(snaps) |->
                      [c \in CsvColumns(sps) |-> CsvCell(snaps[i].items, c)]]]

(* ========================== snapshot actions =========================== *)

MaxSnapshots == 3

\* a sampled genetics value
Sample(n) == JInt(n)

\* the snapshots of the runs: which sub-records and keys a snapshot holds
\* varies from one to the next; genetics are sampled sparsely and a sample
\* may be null
SnapshotShapes ==
    {JDict([tick |-> JInt(1),
            populations |-> JDict([a |-> JInt(5)]),
            genetics |-> JDict([a |-> JDict([speed |-> Sample(7)])])]),
     JDict([tick |-> JInt(2),
            populations |-> JDict([a |-> JInt(6), b |-> JInt(1)])]),
     JDict([tick |-> JInt(3),
            populations |-> JDict([a |-> JInt(0)]),
            genetics |-> JDict([a |-> JDict([speed |-> Sample(9)])]),
            energy |-> JDict([b |-> JDict([mean |-> JInt(5)])])]),
     JDict([tick |-> JInt(4),
            genetics |-> JDict([a |-> JDict([speed |-> JNull])]),
            births |-> JDict([a |-> JInt(2)])]),
     EmptyDict,
     JDict([tick |-> JInt(2),
            populations |-> JDict([Wolf |-> JInt(3)]),
            deaths |-> JDict([a |-> JInt(1)]),
            deathsByCause |-> JDict([a |-> JDict([starvation |-> JInt(1)])]),
            energy |-> JDict([a |-> JDict([mean |-> JInt(1), min |-> JInt(0),
                                           max |-> JInt(2)])]),
            environment |-> JDict([foodSources |-> JDict([prey |-> JInt(4)])]),
            atmosphere |-> JDict([event |-> JStr("storm")])])}

CsvSpeciesLists == {<<>>, <<"a">>, <<"a", "b">>}

InitSnapshots ==
    /\ source = [exists |-> FALSE, kind |-> "folder", entries |-> {}]
    /\ reads = <<>>
    /\ df = EmptyTable
    /\ species = <<>>
    /\ files = <<>>
    /\ \E n \in 0..MaxSnapshots : snapshots \in [1..n -> SnapshotShapes]
    /\ result = Idle

DetectSpeciesFromSnapshots ==
    /\ result = Idle
    /\ result' = [op |-> "detect_species_from_snapshots",
                  value |-> detect_species_from_snapshots(snapshots)]
    /\ UNCHANGED <<source, reads, df, species, files, snapshots>>

SnapshotsToDataframe ==
    /\ result = Idle
    /\ \E flatten \in BOOLEAN, fill_missing_genetics \in BOOLEAN :
        result' = [op |-> "snapshots_to_dataframe", flatten |-> flatten,
                   fill_missing_genetics |-> fill_missing_genetics,
                   value |-> snapshots_to_dataframe(snapshots, flatten,
                                                    fill_missing_genetics)]
    /\ UNCHANGED <<source, reads, df, species, files, snapshots>>

FlattenSnapshots ==
    /\ result = Idle
    /\ result' = [op |-> "flatten_snapshots", value |-> flatten_snapshots(snapshots)]
    /\ UNCHANGED <<source, reads, df, species, files, snapshots>>

ConvertJsonlToCsvFormat ==
    /\ result = Idle
    /\ \E sps \in CsvSpeciesLists \cup {detect_species_from_snapshots(snapshots)} :
        result' = [op |-> "convert_jsonl_to_csv_format", species |-> sps,
                   value |-> convert_jsonl_to_csv_format(snapshots, sps)]
    /\ UNCHANGED <<source, reads, df, species, files, snapshots>>

NextSnapshots ==
    \/ DetectSpeciesFromSnapshots
    \/ FlattenSnapshots
    \/ SnapshotsToDataframe
    \/ ConvertJsonlToCsvFormat
    \/ Return

SpecSnapshots == InitSnapshots /\ [][NextSnapshots]_vars


(* ======================== claims: snapshots ============================ *)

\* the value a snapshot holds under a path of keys, if it holds one
RECURSIVE PathValue(_, _)
PathValue(v, path) ==
    IF path = <<>> THEN Some(v)
    ELSE IF v.type = "dict" /\ Head(path) \in DOMAIN v.items
         THEN PathValue(v.items[Head(path)], Tail(path))
         ELSE None

\* the value under the path, or the default when the snapshot has none
Field(i, path, default) ==
    IF PathValue(snapshots[i], path).some
    THEN PathValue(snapshots[i], path).value
    ELSE default

SpeciesColumns(sp) ==
    {<<sp, "population">>, <<sp, "births">>, <<sp, "deaths">>,
     <<sp, "deaths", "old_age">>, <<sp, "deaths", "starvation">>,
     <<sp, "deaths", "predation">>,
     <<sp, "energy", "mean">>, <<sp, "energy", "min">>, <<sp, "energy", "max">>}

RowColumns ==
    {<<"tick">>, <<"date">>, <<"deltaSeconds">>,
     <<"prey_food_count">>, <<"predator_food_count">>, <<"atmosphere_event">>}

Carries(i, c) ==
    /\ PathValue(snapshots[i], c).some
    /\ PathValue(snapshots[i], c).value.type # "null"

\* C19: with forward-filling, a genetics cell holds the row's own sample
\* when its snapshot carried one, else the sample of the most recent
\* earlier row that carried one, and stays missing before the first sample.
C19_ForwardFill ==
    (/\ result # Idle
     /\ result.op = "snapshots_to_dataframe"
     /\ result.flatten
     /\ result.fill_missing_genetics) =>
        /\ result.value.kind = "df"
        /\ \A c \in result.value.columns : \A i \in 1..Len(snapshots) :
            IsGeneticsColumn(c) =>
                LET cell == result.value.rows[i][c]
                    earlier == {j \in 1..i : Carries(j, c)}
                IN  IF earlier = {} THEN IsNA(cell)
                    ELSE LET last == CHOOSE j \in earlier : \A m \in earlier : m <= j
                         IN  cell = PathValue(snapshots[last], c).value

\* the first row has no sample and stayed missing although the second row
\* carries one, and the third row, without a sample, was filled from the
\* second
C19_Witness ==
    /\ result # Idle
    /\ result.op = "snapshots_to_dataframe"
    /\ result.flatten
    /\ result.fill_missing_genetics
    /\ Len(snapshots) = 3
    /\ LET c == <<"genetics", "a", "speed">>
       IN  /\ ~Carries(1, c)
           /\ Carries(2, c)
           /\ ~Carries(3, c)
           /\ result.value.kind = "df"
           /\ IsNA(result.value.rows[1][c])
           /\ result.value.rows[3][c] = PathValue(snapshots[2], c).value

\* the keys of the populations, genetics and energy sub-records
SpeciesKeys(snaps) ==
    {sp \in Range(SpeciesNames) :
        \E i \in 1..Len(snaps), key \in {"populations", "genetics", "energy"} :
            PathValue(snaps[i], <<key, sp>>).some}

NameRank(sp) == CHOOSE r \in 1..Len(SpeciesNames) : SpeciesNames[r] = sp

Orderings(n) == {f \in [1..n -> 1..n] : \A i, j \in 1..n : f[i] = f[j] => i = j}

\* C20: detect_species_from_snapshots returns exactly the union of the keys
\* of the populations, genetics and energy sub-records, without duplicates
\* and in sorted order, and so the same for every permutation of the
\* snapshots.
C20_SortedUnionOfKeys ==
    (result # Idle /\ result.op = "detect_species_from_snapshots") =>
        /\ Range(result.value) = SpeciesKeys(snapshots)
        /\ \A i, j \in 1..Len(result.value) :
              i < j => NameRank(result.value[i]) < NameRank(result.value[j])
        /\ \A f \in Orderings(Len(snapshots)) :
              detect_species_from_snapshots([i \in 1..Len(snapshots) |-> snapshots[f[i]]])
                 = result.value

\* three names, from three different sub-records and snapshots
C20_Witness ==
    /\ result # Idle
    /\ result.op = "detect_species_from_snapshots"
    /\ result.value = <<"Wolf", "a", "b">>
    /\ \E i \in 1..Len(snapshots) :
          /\ PathValue(snapshots[i], <<"energy", "b">>).some
          /\ ~PathValue(snapshots[i], <<"populations", "b">>).some
    /\ ~\E i \in 1..Len(snapshots) : PathValue(snapshots[i], <<"populations", "b">>).some


(* ============== jsonl_loader: load_multiple_jsonl_files ================ *)

\* key=lambda s: s.get("tick", 0)
TickKey(snapshot) == Get(snapshot.items, "tick", JInt(0)).value

\* list.sort is stable: a snapshot goes behind those with the same key
RECURSIVE InsertByTickUnique(_, _)
InsertByTickUnique(sorted, snapshot) ==
    IF sorted = <<>> THEN <<snapshot>>
    ELSE IF TickKey(Head(sorted)) = TickKey(snapshot) THEN sorted
    ELSE IF TickKey(Head(sorted)) < TickKey(snapshot)
         THEN <<Head(sorted)>> \o InsertByTickUnique(Tail(sorted), snapshot)
         ELSE <<snapshot>> \o sorted

RECURSIVE InsertByTick(_, _)
InsertByTick(sorted, snapshot) ==
    IF sorted = <<>> THEN <<snapshot>>
    ELSE IF TickKey(Head(sorted)) <= TickKey(snapshot)
         THEN <<Head(sorted)>> \o InsertByTick(Tail(sorted), snapshot)
         ELSE <<snapshot>> \o sorted

RECURSIVE SortByTick(_, _)
SortByTick(snaps, sorted) ==
    IF snaps = <<>> THEN sorted
    ELSE SortByTick(Tail(snaps), InsertByTick(sorted, Head(snaps)))

\* merged_metadata.update(metadata)
Update(merged, metadata) ==
    [k \in DOMAIN merged \cup DOMAIN metadata |->
        IF k \in DOMAIN metadata THEN metadata[k] ELSE merged[k]]

\* the loop over file_paths from file i on
RECURSIVE MergeFrom(_, _, _, _, _)
MergeFrom(fs, i, all_snapshots, merged_config, merged_metadata) ==
    IF i > Len(fs)
    THEN [snapshots |-> all_snapshots, config |-> merged_config,
          metadata |-> merged_metadata]
    ELSE LET loaded == load_jsonl_file(fs[i])
         IN  MergeFrom(fs, i + 1,
                       all_snapshots \o loaded.snapshots,
                       IF merged_config = None /\ loaded.config # None
                       THEN loaded.config ELSE merged_config,
                       Update(merged_metadata, loaded.metadata))

\* a parsed value that is not a dict has no get(): the sort raises
load_multiple_jsonl_files(fs) ==
    LET merged == MergeFrom(fs, 1, <<>>, None, <<>>)
    IN  IF \E i \in 1..Len(merged.snapshots) : merged.snapshots[i].type # "dict"
        THEN [kind |-> "AttributeError"]
        ELSE [kind |-> "return",
              snapshots |-> SortByTick(merged.snapshots, <<>>),
              config |-> merged.config,
              metadata |-> merged.metadata]

\* load_rate from the text of its entry on: the string parser, then the
\* table of the snapshots
load_rate_table(content) ==
    snapshots_to_dataframe(load_jsonl_string(content).snapshots, TRUE, TRUE)

\* A returned tuple is kept as its positions; each position carries the
\* name of the local variable the return statement puts there.
Slot(name, value) == [slot |-> name, value |-> value]

\* return snapshots, config, metadata
load_jsonl_file_tuple(lines) ==
    LET loaded == load_jsonl_file(lines)
    IN  <<Slot("snapshots", loaded.snapshots), Slot("config", loaded.config),
          Slot("metadata", loaded.metadata)>>

\* multirate_loader.load_jsonl_file: the string mode returns
\* (snapshots, metadata, config); the file mode hands back the tuple of
\* jsonl_loader.load_jsonl_file as it is
multirate_load_jsonl_file(content, is_string) ==
    IF is_string
    THEN LET parsed == load_jsonl_string(content)
         IN  <<Slot("snapshots", parsed.snapshots), Slot("metadata", parsed.metadata),
               Slot("config", parsed.config)>>
    ELSE load_jsonl_file_tuple(content)

\* load_rate(..., return_metadata=True) from the text of its entry on:
\* snapshots, metadata, config = load_jsonl_file(content, is_string=True)
\* unpacks by position, and (df, metadata, config) is returned
load_rate_with_metadata(content) ==
    LET unpacked == multirate_load_jsonl_file(content, TRUE)
        snapshots_ == unpacked[1].value
        metadata == unpacked[2]
        config == unpacked[3]
    IN  <<Slot("df", snapshots_to_dataframe(snapshots_, TRUE, TRUE)), metadata, config>>

(* ============================ parse actions ============================ *)

MaxLines == 3

\* the lines a file of the runs is made of
ParseLineSet ==
    {<<>>,
     <<Blank>>,
     ConfigStart,
     ConfigEnd,
     <<"#", Blank, "{", "}">>,
     <<"#", Blank, "{">>,
     <<"#", Blank, "K", ":", Blank, "v">>,
     <<"{", "tick:1", "}">>,
     <<"{", "tick:2", "}">>,
     <<"{", "}">>,
     <<"{", "tick:1">>,
     <<"5">>}

InitParse ==
    /\ source = [exists |-> FALSE, kind |-> "folder", entries |-> {}]
    /\ reads = <<>>
    /\ df = EmptyTable
    /\ species = <<>>
    /\ \E n \in 0..MaxLines : \E file \in [1..n -> ParseLineSet] : files = <<file>>
    /\ snapshots = <<>>
    /\ result = Idle

ParseJsonlLine ==
    /\ result = Idle
    /\ \E i \in 1..Len(files[1]) :
        result' = [op |-> "parse_jsonl_line", line |-> i,
                   value |-> parse_jsonl_line(files[1][i])]
    /\ UNCHANGED <<source, reads, df, species, files, snapshots>>

ExtractConfigBlock ==
    /\ result = Idle
    /\ result' = [op |-> "extract_config_block",
                  value |-> extract_config_block(files[1])]
    /\ UNCHANGED <<source, reads, df, species, files, snapshots>>

ExtractMetadata ==
    /\ result = Idle
    /\ result' = [op |-> "extract_metadata", value |-> extract_metadata(files[1])]
    /\ UNCHANGED <<source, reads, df, species, files, snapshots>>

LoadJsonlFile ==
    /\ result = Idle
    /\ result' = [op |-> "load_jsonl_file", value |-> load_jsonl_file(files[1])]
    /\ UNCHANGED <<source, reads, df, species, files, snapshots>>

\* load_rate once the entry is found: lines 223 to 234
LoadRateTable ==
    /\ result = Idle
    /\ result' = [op |-> "load_rate", value |-> load_rate_table(files[1])]
    /\ UNCHANGED <<source, reads, df, species, files, snapshots>>

\* the helper of the multirate loader, on a text or on a file of the
\* same lines
MultirateLoadJsonlFile ==
    /\ result = Idle
    /\ \E is_string \in BOOLEAN :
        result' = [op |-> "multirate_load_jsonl_file", is_string |-> is_string,
                   value |-> multirate_load_jsonl_file(files[1], is_string)]
    /\ UNCHANGED <<source, reads, df, species, files, snapshots>>

LoadRateWithMetadata ==
    /\ result = Idle
    /\ result' = [op |-> "load_rate_return_metadata",
                  value |-> load_rate_with_metadata(files[1])]
    /\ UNCHANGED <<source, reads, df, species, files, snapshots>>

NextParse ==
    \/ ParseJsonlLine
    \/ ExtractConfigBlock
    \/ ExtractMetadata
    \/ LoadJsonlFile
    \/ LoadRateTable
    \/ MultirateLoadJsonlFile
    \/ LoadRateWithMetadata
    \/ Return

SpecParse == InitParse /\ [][NextParse]_vars

(* ============================ merge actions ============================ *)

MaxFiles == 2

MergeDataLines ==
    {<<"{", "tick:1", ",", "id:a", "}">>,
     <<"{", "tick:1", ",", "id:b", "}">>,
     <<"{", "tick:2", ",", "id:a", "}">>,
     <<"{", "id:b", "}">>}

MergeHeaderLines ==
    {<<"#", Blank, "K", ":", Blank, "v">>,
     <<"#", Blank, "K", ":", Blank, "w">>}

\* files of one header or data line, of two data lines in either order, of
\* a header and a data line, a file with a second header key, a file whose
\* only line is a number, and two files with a configuration block
MergeFileSet ==
    {<<>>}
    \cup {<<l>> : l \in MergeDataLines \cup MergeHeaderLines}
    \cup {<<l, m>> : l \in MergeDataLines, m \in MergeDataLines}
    \cup {<<h, <<"{", "tick:2", ",", "id:a", "}">> >> : h \in MergeHeaderLines}
    \cup {<< <<"#", Blank, "J", ":", Blank, "v">>, <<"#", Blank, "K", ":", Blank, "w">> >>,
          << <<"5">> >>,
          <<ConfigStart, <<"#", Blank, "{", "}">>, ConfigEnd>>,
          <<ConfigStart, <<"#", Blank, "{", "seed:1", "}">>, ConfigEnd,
            <<"{", "tick:2", ",", "id:b", "}">>, <<"{", "tick:1", ",", "id:a", "}">> >>}

InitMerge ==
    /\ source = [exists |-> FALSE, kind |-> "folder", entries |-> {}]
    /\ reads = <<>>
    /\ df = EmptyTable
    /\ species = <<>>
    /\ \E n \in 0..MaxFiles : files \in [1..n -> MergeFileSet]
    /\ snapshots = <<>>
    /\ result = Idle

LoadMultipleJsonlFiles ==
    /\ result = Idle
    /\ result' = [op |-> "load_multiple_jsonl_files",
                  value |-> load_multiple_jsonl_files(files)]
    /\ UNCHANGED <<source, reads, df, species, files, snapshots>>

\* the table of the merged snapshots
MergedTable ==
    /\ result = Idle
    /\ load_multiple_jsonl_files(files).kind = "return"
    /\ result' = [op |-> "snapshots_to_dataframe",
                  value |-> snapshots_to_dataframe(
                                load_multiple_jsonl_files(files).snapshots, TRUE, TRUE)]
    /\ UNCHANGED <<source, reads, df, species, files, snapshots>>

NextMerge == LoadMultipleJsonlFiles \/ MergedTable \/ Return

SpecMerge == InitMerge /\ [][NextMerge]_vars


(* ====================== claims: loading files ========================== *)

\* a data line: not blank and not a '#' line
IsDataLine(line) == Strip(line) # <<>> /\ Head(Strip(line)) # "#"

WellFormed(line) == JsonLoads(Strip(line)) # JSONDecodeError

\* the records of the data lines of a file that are well formed, in order
RECURSIVE Records(_)
Records(lines) ==
    IF lines = <<>> THEN <<>>
    ELSE IF IsDataLine(Head(lines)) /\ WellFormed(Head(lines))
         THEN <<JsonLoads(Strip(Head(lines)))>> \o Records(Tail(lines))
         ELSE Records(Tail(lines))

RECURSIVE AllRecords(_)
AllRecords(fs) ==
    IF fs = <<>> THEN <<>> ELSE Records(Head(fs)) \o AllRecords(Tail(fs))

Count(x, seq) == Cardinality({i \in 1..Len(seq) : seq[i] = x})

OnlyDicts(seq) == \A i \in 1..Len(seq) : seq[i].type = "dict"

\* C13: load_multiple_jsonl_files returns a permutation of the
\* concatenation of the parsed snapshots of all files, nothing dropped and
\* nothing duplicated, ordered by non-decreasing tick (a snapshot without
\* a tick counts as tick 0).
C13_SortedPermutation ==
    (/\ result # Idle
     /\ result.op = "load_multiple_jsonl_files"
     /\ OnlyDicts(AllRecords(files))) =>
        /\ result.value.kind = "return"
        /\ Len(result.value.snapshots) = Len(AllRecords(files))
        /\ \A x \in Range(AllRecords(files)) :
              Count(x, result.value.snapshots) = Count(x, AllRecords(files))
        /\ \A i, j \in 1..Len(result.value.snapshots) :
              i < j => TickKey(result.value.snapshots[i])
                         <= TickKey(result.value.snapshots[j])

\* two files, the first with its ticks in descending order, the second
\* repeating a snapshot of the first
C13_Witness ==
    /\ result # Idle
    /\ result.op = "load_multiple_jsonl_files"
    /\ Len(files) = 2
    /\ Len(Records(files[1])) = 2
    /\ OnlyDicts(AllRecords(files))
    /\ TickKey(Records(files[1])[1]) > TickKey(Records(files[1])[2])
    /\ Records(files[2]) = <<Records(files[1])[2]>>
    /\ result.value.kind = "return"
    /\ Len(result.value.snapshots) = 3

\* C14: in load_multiple_jsonl_files the merged metadata holds, for every
\* key, the value of the earliest file that has the key, and the merged
\* configuration is the first file's configuration.
C14_FirstFileWins ==
    (/\ result # Idle
     /\ result.op = "load_multiple_jsonl_files"
     /\ result.value.kind = "return") =>
        /\ \A i \in 1..Len(files) : \A k \in DOMAIN extract_metadata(files[i]) :
              (\A j \in 1..(i - 1) : k \notin DOMAIN extract_metadata(files[j])) =>
                 /\ k \in DOMAIN result.value.metadata
                 /\ result.value.metadata[k] = extract_metadata(files[i])[k]
        /\ Len(files) >= 1 => result.value.config = extract_config_block(files[1])

\* C15: parse_jsonl_line returns absent for blank lines, '#' lines and
\* malformed lines and never raises, and both loads complete and return
\* the records of all remaining data lines in their original order.
C15_BadLinesAreSkipped ==
    /\ (result # Idle /\ result.op = "parse_jsonl_line") =>
          LET line == files[1][result.line]
          IN  /\ result.value \in {None} \cup {Some(JsonLoads(Strip(line)))}
              /\ (~IsDataLine(line) \/ ~WellFormed(line)) => result.value = None
    /\ (result # Idle /\ result.op = "load_jsonl_file") =>
          result.value.snapshots = Records(files[1])
    /\ (result # Idle /\ result.op = "load_rate") =>
          /\ result.value.kind = "df"
          /\ Len(result.value.rows) = Len(Records(files[1]))
          /\ \A i \in 1..Len(Records(files[1])) :
                \A k \in DOMAIN Records(files[1])[i].items :
                   result.value.rows[i][<<k>>] = Records(files[1])[i].items[k]

\* the markers of a configuration block: a start and a later end, with no
\* end before the start
BlockAt(lines, i, j) ==
    /\ i < j
    /\ Strip(lines[i]) = ConfigStart
    /\ Strip(lines[j]) = ConfigEnd
    /\ \A m \in 1..(j - 1) : Strip(lines[m]) # ConfigEnd

\* C16: extract_config_block never raises, returns a configuration only
\* for lines between a start marker and a following end marker that parse,
\* returns absent when a marker is missing or the end comes first, and
\* load_jsonl_file still loads metadata and snapshots when it is absent.
C16_ConfigNeedsBothMarkers ==
    /\ (result # Idle /\ result.op = "extract_config_block") =>
          (result.value # None =>
              \E i, j \in 1..Len(files[1]) : BlockAt(files[1], i, j))
    /\ (result # Idle /\ result.op = "load_jsonl_file") =>
          (result.value.config = None =>
              /\ result.value.snapshots = Records(files[1])
              /\ result.value.metadata = extract_metadata(files[1]))

TickColumn(table) ==
    [i \in 1..Len(table.rows) |-> table.rows[i][<<"tick">>]]

\* C18: every table returned by a load call has strictly increasing tick
\* values, one row per tick, whatever the order or duplication of ticks in
\* the input.
C18_StrictlyIncreasingTicks ==
    (/\ result # Idle
     /\ result.op = "load_rate"
     /\ result.value.kind = "df"
     /\ <<"tick">> \in result.value.columns) =>
        \A i, j \in 1..Len(result.value.rows) :
            i < j =>
               /\ TickColumn(result.value)[i].type = "int"
               /\ TickColumn(result.value)[j].type = "int"
               /\ TickColumn(result.value)[i].value < TickColumn(result.value)[j].value

(* ================= claims on the list of available rates =============== *)

\* an entry name that is f'snapshots_{rate}x.jsonl' for a decimal numeral
FollowsConvention(name) ==
    /\ Len(name) >= 3
    /\ name[1] = "snapshots_"
    /\ name[Len(name)] = "x.jsonl"
    /\ \A i \in 2..(Len(name) - 1) : name[i] \in DigitSet

\* the rate number such a name carries
ConventionRate(name) == DigitsValue(SubSeq(name, 2, Len(name) - 1))

ConventionEntries(src) == {e \in src.entries : FollowsConvention(e)}

Occurrences(seq, v) == Cardinality({i \in 1..Len(seq) : seq[i] = v})

\* C21: on an existing bundle list_available_rates returns, in ascending
\* order, the rate number of each entry named snapshots_<rate>x.jsonl and
\* nothing else; with no such entry it returns the empty sequence, not an
\* error.
C21_RatesOfConventionEntries ==
    (result # Idle /\ result.op = "list_available_rates" /\ source.exists) =>
        /\ result.out.kind = "list"
        /\ \A i, j \in 1..Len(result.out.rates) :
              i < j => result.out.rates[i] <= result.out.rates[j]
        /\ \A r \in Range(result.out.rates)
                    \cup {ConventionRate(e) : e \in ConventionEntries(source)} :
              Occurrences(result.out.rates, r) =
                 Cardinality({e \in ConventionEntries(source) : ConventionRate(e) = r})

(* ============ stability_metrics: ecosystem, risk, predator-prey ======== *)

\* calculate_ecosystem_stability: np.mean of the per-species stabilities
\* that are neither NaN nor +inf; NaN when none is left.  The stabilities
\* are kept, in species order, in place of the mean of their square roots.
calculate_ecosystem_stability(d, sps, window) ==
    LET cvs == SelectSeq([k \in 1..Len(sps) |->
                              calculate_population_stability(d, sps[k], window)],
                         LAMBDA cv : cv.mean = "num")
    IN  [cvs |-> cvs, mean |-> IF cvs = <<>> THEN "nan" ELSE "num"]

\* detect_extinction_risk: (at_risk, min_population)
detect_extinction_risk(d, sp, threshold) ==
    IF sp \notin Columns(d) THEN [at_risk |-> FALSE, min_population |-> NaN]
    ELSE IF Len(d.population[sp]) = 0
    THEN [at_risk |-> FALSE, min_population |-> NaN]        \* min of nothing is NaN
    ELSE LET min_pop == MinOf(Range(d.population[sp]))
         IN  [at_risk |-> min_pop < threshold,
              min_population |-> [kind |-> "num", value |-> min_pop]]

RECURSIVE GCD(_, _)
GCD(a, b) == IF b = 0 THEN a ELSE GCD(b, a % b)

RECURSIVE LCMOf(_)
LCMOf(xs) ==
    IF xs = <<>> THEN 1
    ELSE LET rest == LCMOf(Tail(xs))
         IN  (Head(xs) * rest) \div GCD(Head(xs), rest)

RECURSIVE SumProd(_, _)
SumProd(xs, ys) ==
    IF xs = <<>> THEN 0 ELSE Head(xs) * Head(ys) + SumProd(Tail(xs), Tail(ys))

\* the table after  sum(df[f'{sp}_population'] for sp in sps if ...):  a
\* variant that accumulates into the first listed column
AggregateInPlace(d, sps) ==
    LET cols == WithColumn(d, sps)
    IN  IF Len(cols) < 2 THEN d
        ELSE [d EXCEPT !.population[cols[1]] =
                  [idx \in Rows(d) |-> AggregateAt(d, sps, idx)]]

\* sum() starts from the int 0 and adds with +, which builds a new Series
\* at every step: no column of df is written
AfterAggregate(d, sps) == d

\* Series.corr (Pearson): NaN for fewer than two rows or a constant
\* series; otherwise kept as covariance and variances, each times n^2
Corr(xs, ys) ==
    LET n == Len(xs)
        cov == n * SumProd(xs, ys) - Sum(xs) * Sum(ys)
        var_x == n * SumSq(xs) - Sum(xs) * Sum(xs)
        var_y == n * SumSq(ys) - Sum(ys) * Sum(ys)
    IN  IF n < 2 \/ var_x = 0 \/ var_y = 0 THEN NaN
        ELSE [kind |-> "num", cov |-> cov, var_x |-> var_x, var_y |-> var_y]

\* calculate_predator_prey_stability.  An aggregate over no column is the
\* int 0 of sum(): it has neither .replace nor .mean (AttributeError).
\* ratio = prey_total / predator_total.replace(0, nan): NaN where the
\* predators are 0.  The defined ratios p/q are kept over their common
\* denominator lcm, as the integers p * lcm / q; mean and std skip NaN.
calculate_predator_prey_stability(d, prey_species, predator_species) ==
    IF Len(WithColumn(d, predator_species)) = 0 THEN [kind |-> "AttributeError"]
    ELSE IF Len(WithColumn(d, prey_species)) = 0 THEN [kind |-> "AttributeError"]
    ELSE LET prey_total == [idx \in Rows(d) |-> AggregateAt(d, prey_species, idx)]
             predator_total == [idx \in Rows(d) |-> AggregateAt(d, predator_species, idx)]
             defined == SelectSeq([idx \in Rows(d) |-> idx],
                                  LAMBDA idx : predator_total[idx] # 0)
             lcm == LCMOf([k \in 1..Len(defined) |-> predator_total[defined[k]]])
             scaled == [k \in 1..Len(defined) |->
                           prey_total[defined[k]] * (lcm \div predator_total[defined[k]])]
             n == Len(scaled)
         IN  [kind |-> "return",
              ratio |-> [idx \in Rows(d) |->
                            IF predator_total[idx] = 0 THEN NaN
                            ELSE [kind |-> "num", n |-> prey_total[idx],
                                  d |-> predator_total[idx]]],
              ratio_mean |-> IF n = 0 THEN NaN
                             ELSE [kind |-> "num", n |-> Sum(scaled), d |-> n * lcm],
              ratio_std |-> IF n < 2 THEN NaN
                            ELSE Num(n * SumSq(scaled) - Sum(scaled) * Sum(scaled),
                                     n * (n - 1) * lcm * lcm),
              ratio_cv |-> calculate_coefficient_of_variation(scaled),
              prey_cv |-> calculate_coefficient_of_variation(prey_total),
              predator_cv |-> calculate_coefficient_of_variation(predator_total),
              correlation |-> Corr(prey_total, predator_total)]

(* ============== stability_metrics: time to equilibrium, report ========= *)

\* default arguments of the stability functions
StabilityWindow == 100

EcosystemWindow == 100

ClassifyWindow == 100

EquilibriumWindow == 100

RiskThreshold == 10

\* calculate_time_to_equilibrium: None without equilibrium; otherwise the
\* 'date' column is read, which the tables modelled here do not have
calculate_time_to_equilibrium(d, sps, window, cv_threshold) ==
    IF detect_equilibrium(d, sps, window, cv_threshold) = None
    THEN [kind |-> "return", value |-> None]
    ELSE [kind |-> "KeyError"]

\* the Series of Shannon indices with its mean/min/max, NaN for no row
BiodiversitySummary(d, sps) ==
    [series |-> calculate_biodiversity_index(d, sps), isnan |-> Len(d.tick) = 0]

\* generate_stability_report: the report, or the first exception raised
generate_stability_report(d, sps) ==
    LET listed == Range(sps)
        dynamics == [sp \in listed |->
                        classify_population_dynamics(d, sp, ClassifyWindow)]
        equilibrium_tick == detect_equilibrium(d, sps, EquilibriumWindow, Frac(1, 10))
        equilibrium_time ==
            calculate_time_to_equilibrium(d, sps, EquilibriumWindow, Frac(1, 10))
        collapse == detect_ecosystem_collapse(d, sps, Frac(1, 2))
    IN  IF \E sp \in listed : dynamics[sp] = "IndexError" THEN [kind |-> "IndexError"]
        ELSE IF equilibrium_time.kind # "return" THEN [kind |-> equilibrium_time.kind]
        ELSE IF collapse.kind # "return" THEN [kind |-> collapse.kind]
        ELSE [kind |-> "return",
              species_stability |->
                  [sp \in listed |->
                      calculate_population_stability(d, sp, StabilityWindow)],
              species_dynamics |-> dynamics,
              extinction_risk |->
                  [sp \in listed |-> detect_extinction_risk(d, sp, RiskThreshold)],
              ecosystem_stability |->
                  calculate_ecosystem_stability(d, sps, EcosystemWindow),
              biodiversity |-> BiodiversitySummary(d, sps),
              equilibrium |-> [reached |-> equilibrium_tick # None,
                               tick |-> equilibrium_tick,
                               time_seconds |-> equilibrium_time.value],
              collapse |-> [occurred |-> collapse.collapsed, tick |-> collapse.tick]]

(* ===================== stability engine actions ======================== *)

\* most rows of a table handed to the whole set of stability functions
MaxEngineLen == 3

\* species lists, the empty list included
EngineSpecies == {<<>>, <<"a">>, <<"a", "b">>}

EnginePredators == {<<>>, <<"b">>}

InitEngine ==
    /\ source = [exists |-> FALSE, kind |-> "folder", entries |-> {}]
    /\ reads = <<>>
    /\ files = <<>>
    /\ snapshots = <<>>
    /\ \E n \in 0..MaxEngineLen : df \in Tables(n)
    /\ species \in EngineSpecies
    /\ result = Idle

CalculateEcosystemStability ==
    /\ result = Idle
    /\ \E window \in 1..MaxWindow :
        result' = [op |-> "calculate_ecosystem_stability", window |-> window,
                   value |-> calculate_ecosystem_stability(df, species, window)]
    /\ UNCHANGED <<source, reads, df, species, files, snapshots>>

\* the prey are the listed species
CalculatePredatorPreyStability ==
    /\ result = Idle
    /\ \E predators \in EnginePredators :
        /\ result' = [op |-> "calculate_predator_prey_stability",
                      predators |-> predators,
                      value |-> calculate_predator_prey_stability(df, species, predators)]
        /\ df' = AfterAggregate(AfterAggregate(df, species), predators)
    /\ UNCHANGED <<source, reads, species, files, snapshots>>

GenerateStabilityReport ==
    /\ result = Idle
    /\ result' = [op |-> "generate_stability_report",
                  value |-> generate_stability_report(df, species)]
    /\ UNCHANGED <<source, reads, df, species, files, snapshots>>

NextEngine ==
    \/ CalculatePopulationStability
    \/ CalculateEcosystemStability
    \/ CalculateBiodiversityIndex
    \/ DetectEcosystemCollapse
    \/ DetectEquilibrium
    \/ DetectOscillation
    \/ ClassifyPopulationDynamics
    \/ CalculatePredatorPreyStability
    \/ DetectPredatorPreyCycles
    \/ GenerateStabilityReport
    \/ Return

SpecEngine == InitEngine /\ [][NextEngine]_vars

(* =================== claims on the stability engine ==================== *)

\* the rolling windows of a column whose mean is 0 have CV +infinity
ZeroMeansAreInf(col, window, cvs) ==
    \A i \in 1..Len(col) : Sum(Trailing(col, window, i)) = 0 => cvs[i] = Inf

\* C22: no stability computation raises an exception because of a zero
\* divisor, whatever the table and the species list (the empty list, all
\* populations 0 and a zero predator aggregate included): CV windows of
\* mean 0 are +infinity, a row of total 0 has biodiversity 0, rows without
\* predators have an undefined ratio, and the collapse fraction, the cycle
\* periods and the report are returned.
C22_NoZeroDivisorException ==
    /\ (result # Idle /\ result.op = "calculate_population_stability"
        /\ result.species \in Columns(df)) =>
          ZeroMeansAreInf(df.population[result.species], result.window,
                          result.value.rolling_cv)
    /\ (result # Idle /\ result.op = "calculate_biodiversity_index") =>
          \A idx \in Rows(df) :
             Sum(PopulationsAt(df, species, idx)) = 0 => result.value[idx] = <<>>
    /\ (result # Idle /\ result.op = "detect_ecosystem_collapse") =>
          result.value.kind # "ZeroDivisionError"
    /\ (result # Idle /\ result.op = "calculate_predator_prey_stability") =>
          /\ result.value.kind # "ZeroDivisionError"
          /\ result.value.kind = "return" =>
                \A idx \in Rows(df) :
                   AggregateAt(df, result.predators, idx) = 0
                      => result.value.ratio[idx] = NaN
    /\ (result # Idle /\ result.op = "detect_predator_prey_cycles") =>
          result.value.kind # "ZeroDivisionError"
    /\ (result # Idle /\ result.op = "generate_stability_report") =>
          result.value.kind # "ZeroDivisionError"

\* the value a finished call would have if it were made again on table d
Repeated(call, d, sps) ==
    CASE call.op = "calculate_population_stability" ->
            calculate_population_stability(d, call.species, call.window)
      [] call.op = "calculate_ecosystem_stability" ->
            calculate_ecosystem_stability(d, sps, call.window)
      [] call.op = "calculate_biodiversity_index" ->
            calculate_biodiversity_index(d, sps)
      [] call.op = "detect_ecosystem_collapse" ->
            detect_ecosystem_collapse(d, sps, call.threshold)
      [] call.op = "detect_equilibrium" ->
            detect_equilibrium(d, sps, call.window, call.threshold)
      [] call.op = "detect_oscillation" ->
            detect_oscillation(d.population[call.species], call.window)
      [] call.op = "classify_population_dynamics" ->
            classify_population_dynamics(d, call.species, call.window)
      [] call.op = "calculate_predator_prey_stability" ->
            calculate_predator_prey_stability(d, sps, call.predators)
      [] call.op = "detect_predator_prey_cycles" ->
            detect_predator_prey_cycles(d, sps, <<"predator">>, call.min_period)
      [] call.op = "generate_stability_report" ->
            generate_stability_report(d, sps)

ScalarPaths(sp) ==
    {<<"populations", sp>>} \cup {<<"energy", sp, stat>> : stat \in EnergyStats}

\* the canonical column that carries the field
CanonicalColumn(path) ==
    IF path[1] = "populations" THEN <<path[2], "population">>
    ELSE <<path[2], "energy", path[3]>>

\* snapshot i holds a non-list scalar under the path
HoldsScalar(i, path) ==
    /\ PathValue(snapshots[i], path).some
    /\ PathValue(snapshots[i], path).value.type \notin {"dict", "list"}

\* C24: for every snapshot, species and scalar field (population, energy
\* mean/min/max) present in the nested record, the flattened record holds
\* the nested value under the joined key, and the canonical row holds it
\* in the species' column; so the two agree with each other.
C24_ScalarFieldsPreserved ==
    /\ (result # Idle /\ result.op = "flatten_snapshots") =>
          \A i \in 1..Len(snapshots) :
             \A sp \in Range(SpeciesNames) :
                \A path \in ScalarPaths(sp) :
                   HoldsScalar(i, path) =>
                      /\ path \in DOMAIN result.value[i]
                      /\ result.value[i][path] = PathValue(snapshots[i], path).value
    /\ (result # Idle /\ result.op = "convert_jsonl_to_csv_format") =>
          /\ result.value.kind = "df"
          /\ \A i \in 1..Len(snapshots) :
                \A sp \in Range(result.species) :
                   \A path \in ScalarPaths(sp) :
                      HoldsScalar(i, path) =>
                         result.value.rows[i][CanonicalColumn(path)]
                            = PathValue(snapshots[i], path).value

\* rows were made for a listed species whose snapshot holds a population
\* and all three energy statistics
C24_Witness ==
    /\ result # Idle
    /\ result.op = "convert_jsonl_to_csv_format"
    /\ result.value.kind = "df"
    /\ \E i \in 1..Len(snapshots) :
          /\ \E sp \in Range(result.species) : HoldsScalar(i, <<"populations", sp>>)
          /\ \E sp \in Range(result.species) :
                \A stat \in EnergyStats : HoldsScalar(i, <<"energy", sp, stat>>)

(* ============== multirate_loader: the two storage media ================ *)

\* The bytes of an entry are a sequence of segments, each a run of text
\* followed by a line terminator.
LF == Newline

CRLF == "\r\n"

CR == CarriageReturn

Terminators == {LF, CRLF, CR}

\* open(path, 'r').read(): universal newlines, every terminator is read
\* as '\n'.  The text is kept as its lines; it ends with a terminator, so
\* the last line is empty.
TranslateNewlines(bytes) ==
    [i \in 1..(Len(bytes) + 1) |-> IF i <= Len(bytes) THEN bytes[i].text ELSE <<>>]

\* zf.open(name).read().decode('utf-8'): the characters as they are.  Only
\* '\n' ends a line of the text; a '\r' stays in its line.
RECURSIVE DecodeUtf8(_, _)
DecodeUtf8(bytes, line) ==
    IF bytes = <<>> THEN <<line>>
    ELSE LET text == line \o Head(bytes).text
         IN  CASE Head(bytes).end = LF ->
                    <<text>> \o DecodeUtf8(Tail(bytes), <<>>)
               [] Head(bytes).end = CRLF ->
                    <<Append(text, CarriageReturn)>> \o DecodeUtf8(Tail(bytes), <<>>)
               [] Head(bytes).end = CR ->
                    DecodeUtf8(Tail(bytes), Append(text, CarriageReturn))

\* the text of an entry that exists, as the medium's reader returns it
ReadEntry(src, filename) ==
    IF src.kind = "folder"
    THEN TranslateNewlines(src.content[filename])
    ELSE DecodeUtf8(src.content[filename], <<>>)

\* _load_json_from_source: json.load of the entry, or FileNotFoundError
_load_json_from_source(src, filename) ==
    IF filename \notin src.entries
    THEN [kind |-> "FileNotFoundError", entry |-> filename]
    ELSE LET value == JsonLoads(Join(ReadEntry(src, filename)))
         IN  IF value = JSONDecodeError THEN [kind |-> "JSONDecodeError"]
             ELSE [kind |-> "return", value |-> PyValue(value)]

MissingSource == [kind |-> "FileNotFoundError", entry |-> <<>>]

load_metadata(src) ==
    IF ~src.exists THEN MissingSource
    ELSE _load_json_from_source(src, <<"metadata.json">>)

\* a missing stats entry is None, not an error
load_current_stats(src) ==
    IF ~src.exists THEN MissingSource
    ELSE LET loaded == _load_json_from_source(src, <<"stats_current.json">>)
         IN  IF loaded.kind = "FileNotFoundError"
             THEN [kind |-> "return", value |-> None]
             ELSE loaded

\* load_rate with the text of the entry read and parsed into the table
load_rate_from_source(src, rate) ==
    LET found == load_rate(src, rate).out
    IN  IF found.kind # "DataFrame" THEN found
        ELSE load_rate_table(ReadEntry(src, found.entry))

(* ======================== storage media actions ======================== *)

\* most segments of an entry
MaxSegments == 2

\* the lines an entry of line-delimited records is made of
SegmentTexts == {<<"{", "tick:1", "}">>, <<"{", "tick:2", "}">>}

JsonlContents ==
    UNION {[1..n -> [text : SegmentTexts, end : Terminators]] : n \in 1..MaxSegments}

\* the bytes of metadata.json and stats_current.json: an object, or a
\* truncated one
JsonContents ==
    {<< [text |-> <<"{", "id:a", "}">>, end |-> LF] >>,
     << [text |-> <<"{", "id:a">>, end |-> LF] >>}

JsonNames == {<<"metadata.json">>, <<"stats_current.json">>}

\* rate 2 is listed through an entry that load_rate does not look for
MediaNames == {SnapshotName(1), <<"snapshots_", "0", "2", "x.jsonl">>} \cup JsonNames

MediaSources ==
    {[exists |-> FALSE, kind |-> "folder", entries |-> {}, content |-> <<>>]}
    \cup {[exists |-> TRUE, kind |-> kind, entries |-> entries,
           content |-> [e \in entries |-> IF e \in JsonNames THEN json ELSE jsonl]] :
             kind \in {"folder", "zip"}, entries \in SUBSET MediaNames,
             jsonl \in JsonlContents, json \in JsonContents}

InitMedia ==
    /\ source \in MediaSources
    /\ reads = <<>>
    /\ files = <<>>
    /\ snapshots = <<>>
    /\ df = EmptyTable
    /\ species = <<>>
    /\ result = Idle

\* enumerating the entries of an existing bundle
ListFilesInSource ==
    /\ result = Idle
    /\ source.exists
    /\ result' = [op |-> "_list_files_in_source",
                  out |-> [kind |-> "list", names |-> _list_files_in_source(source)]]
    /\ UNCHANGED <<source, reads, df, species, files, snapshots>>

LoadMetadata ==
    /\ result = Idle
    /\ result' = [op |-> "load_metadata", out |-> load_metadata(source)]
    /\ UNCHANGED <<source, reads, df, species, files, snapshots>>

LoadCurrentStats ==
    /\ result = Idle
    /\ result' = [op |-> "load_current_stats", out |-> load_current_stats(source)]
    /\ UNCHANGED <<source, reads, df, species, files, snapshots>>

LoadRateFromSource ==
    /\ result = Idle
    /\ \E rate \in 1..MaxRate :
        /\ result' = [op |-> "load_rate", rate |-> rate,
                      out |-> load_rate_from_source(source, rate)]
        /\ reads' = load_rate(source, rate).reads
    /\ UNCHANGED <<source, df, species, files, snapshots>>

NextMedia ==
    \/ ListFilesInSource
    \/ ListAvailableRates
    \/ LoadMetadata
    \/ LoadCurrentStats
    \/ LoadRateFromSource
    \/ Return

SpecMedia == InitMedia /\ [][NextMedia]_vars

(* ===================== claims on the storage media ===================== *)

\* the bundle of the other medium with the same entry names and contents
Twin(src) == [src EXCEPT !.kind = IF @ = "folder" THEN "zip" ELSE "folder"]

\* the outcome of a call on a bundle
OutcomeOn(call, src) ==
    CASE call.op = "_list_files_in_source" ->
            [kind |-> "list", names |-> _list_files_in_source(src)]
      [] call.op = "list_available_rates" ->
            IF src.exists THEN [kind |-> "list", rates |-> list_available_rates(src)]
            ELSE MissingSource
      [] call.op = "load_metadata" -> load_metadata(src)
      [] call.op = "load_current_stats" -> load_current_stats(src)
      [] call.op = "load_rate" -> load_rate_from_source(src, call.rate)

\* C25: a directory and a compressed archive that hold the same entry
\* names with the same contents give the same results for enumerating the
\* entries, list_available_rates, load_metadata, load_current_stats and
\* load_rate: the same rates, the same tables, the same failures.
C25_MediaAgree ==
    (result # Idle /\ source.exists) => result.out = OutcomeOn(result, Twin(source))

(* ============================ header actions =========================== *)

\* most lines after the filler lines of a file
MaxHeaderTail == 2

\* a comment line without a pair
FillerLine == <<"#", Blank, "v">>

\* header lines: pairs with and without the blank after '#', a key with a
\* blank inside and blanks around, a data line, a comment without ':'
HeaderLineSet ==
    {<<"#", Blank, "K", ":", Blank, "v">>,
     <<"#", Blank, "K", ":", Blank, "w">>,
     <<"#", "K", ":", Blank, "v">>,
     <<Blank, "#", Blank, "J", Blank, "K", Blank, ":", "v", Blank>>,
     <<"{", "tick:1", "}">>,
     FillerLine}

\* files whose last lines fall before, across and after line 20
InitHeader ==
    /\ source = [exists |-> FALSE, kind |-> "folder", entries |-> {}]
    /\ reads = <<>>
    /\ df = EmptyTable
    /\ species = <<>>
    /\ \E pad \in {0, HeaderLines - 1, HeaderLines}, n \in 0..MaxHeaderTail :
          \E tail \in [1..n -> HeaderLineSet] :
             files = << [i \in 1..pad |-> FillerLine] \o tail >>
    /\ snapshots = <<>>
    /\ result = Idle

NextHeader == ExtractMetadata \/ Return

SpecHeader == InitHeader /\ [][NextHeader]_vars

(* ===================== claims on the header metadata =================== *)

\* the pair a line contributes: for a '#'-prefixed line whose text after
\* the '#' holds a ':', the key is the text before the first ':' and the
\* value the text after it
HasPair(line) ==
    /\ StartsWith(Strip(line), <<"#">>)
    /\ \E j \in 2..Len(Strip(line)) : HasColon(Strip(line)[j])

PairOf(line) ==
    LET kv == SplitColon(Tail(Strip(line)))
    IN  [key |-> NormalKey(kv.key), value |-> Strip(kv.value)]

\* the pairs of the first lines, a later one overwriting an earlier one
RECURSIVE PairsUpTo(_, _)
PairsUpTo(lines, n) ==
    IF n = 0 THEN <<>>
    ELSE LET before == PairsUpTo(lines, n - 1)
         IN  IF ~HasPair(lines[n]) THEN before
             ELSE [k \in DOMAIN before \cup {PairOf(lines[n]).key} |->
                      IF k = PairOf(lines[n]).key THEN PairOf(lines[n]).value
                      ELSE before[k]]

\* C26: extract_metadata depends only on the first 20 lines; of those,
\* exactly the '#'-prefixed lines that contain ':' contribute a pair, the
\* key being the text before the first ':' in lower case with '_' for each
\* blank and the value the trimmed remainder; a later line overwrites an
\* earlier one with the same key.
C26_MetadataOfFirstLines ==
    (result # Idle /\ result.op = "extract_metadata") =>
        result.value = PairsUpTo(files[1],
                                 IF Len(files[1]) < HeaderLines THEN Len(files[1])
                                 ELSE HeaderLines)

(* ==================== claims on the two parse paths ==================== *)

\* C27: the load_jsonl_file helper of the multirate loader returns its
\* tuple in the order (snapshots, metadata, config) for string content and
\* for a file path alike, and load_rate with return_metadata hands back
\* (table, metadata, config).
C27_TupleOrder ==
    /\ (result # Idle /\ result.op = "multirate_load_jsonl_file") =>
          /\ result.value[1].slot = "snapshots"
          /\ result.value[2].slot = "metadata"
          /\ result.value[3].slot = "config"
    /\ (result # Idle /\ result.op = "load_rate_return_metadata") =>
          /\ result.value[1].slot = "df"
          /\ result.value[2].slot = "metadata"
          /\ result.value[3].slot = "config"

(* =================== claims on loading the listed rates ================ *)

\* C28: every rate that list_available_rates returns can be loaded: its
\* entry snapshots_<r>x.jsonl exists and no rate is returned twice, so
\* load_rate of a listed rate returns a table, and load_multirate_export
\* without a rate list never fails with a missing entry.
C28_ListedRatesLoad ==
    /\ (result # Idle /\ result.op = "list_available_rates" /\ source.exists) =>
          /\ \A i \in 1..Len(result.out.rates) :
                SnapshotName(result.out.rates[i]) \in source.entries
          /\ \A i, j \in 1..Len(result.out.rates) :
                i # j => result.out.rates[i] # result.out.rates[j]
    /\ (result # Idle /\ result.op = "load_rate" /\ source.exists
        /\ result.rate \in Range(list_available_rates(source))) =>
          result.out.kind = "DataFrame"
    /\ (result # Idle /\ result.op = "load_multirate_export" /\ source.exists
        /\ result.rates = None) =>
          result.out.kind = "dict"

(* ================ claims on the two equilibrium detectors ============== *)

\* C29: on a table that has a column for every listed species, the
\* detector of evolution_analyzer returns what the detector of
\* stability_metrics returns for the same window and threshold: the same
\* tick, or no equilibrium in both.
C29_DetectorsAgree ==
    (/\ result # Idle
     /\ result.op = "evolution_detect_equilibrium"
     /\ Range(species) \subseteq Columns(df)) =>
        /\ result.value.kind = "return"
        /\ result.value.tick = detect_equilibrium(df, species, result.window,
                                                  result.threshold)

\* C30: parsing a text as a file (jsonl_loader.load_jsonl_file) and as a
\* string (the string mode of the multirate loader, as load_rate uses it)
\* gives the same snapshots, the same configuration and the same metadata,
\* also when a data line holds an empty record or another falsy value.
C30_ParsePathsAgree ==
    (result # Idle /\ result.op = "load_jsonl_file") =>
        /\ result.value.snapshots = load_jsonl_string(files[1]).snapshots
        /\ result.value.config = load_jsonl_string(files[1]).config
        /\ result.value.metadata = load_jsonl_string(files[1]).metadata

====
